---- MODULE Spec2Model ----
(***************************************************************************)
(* Frame-stepped simulation core of MYOB Retro Runner: Game, SpawnManager, *)
(* PowerUpManager, Player, Enemy, Obstacle and Coin.                       *)
(*                                                                         *)
(* Lengths are integers in tenths of a pixel (Scale), which represents     *)
(* every quantity of the source exactly (gravity 0.3, speeds 5 + 0.5 k and *)
(* 4 + 0.4 k, the enemy's 2.4) except the coin attraction, whose square    *)
(* root and quotient are rounded down to that grid.  Math.random() is a    *)
(* draw from a small set of percentages.  Cosmetic fields (sprites,        *)
(* animation frames, DOM elements) are left out.                           *)
(***************************************************************************)
EXTENDS Integers, Sequences, FiniteSets, TLC

VARIABLES isRunning, gameOver, score, highScore, player, spawnManager,
          powerUpManager, enemies, retryTimers, log, ticksLeft, intentsLeft

vars == <<isRunning, gameOver, score, highScore, player, spawnManager,
          powerUpManager, enemies, retryTimers, log, ticksLeft, intentsLeft>>

(***************************************************************************)
(* Units and program constants                                             *)
(***************************************************************************)
Scale == 10
Px(n) == n * Scale

canvasWidth == 800
canvasHeight == 400

playerX == 80
playerWidth == 32
playerHeight == 48
playerGravity == 3
jumpForce == -10
powerUpDuration == 600
playerAttackDuration == 20
playerAttackCooldownDuration == 30
attackInvincibilityDuration == 15
extendedHitbox == 10

enemyWidth == 32
enemyHeight == 48
enemyVelocityX == -3
enemyGravity == 6
enemyAttackDuration == 120
enemyAttackCooldownDuration == 180
enemyAttackRange == 200
enemyOffscreenBuffer == 10
enemyResetOffset == 500

obstacleSize == 40
attractionRange == 250
attractionMaxForce == 5

baseSpeed == 5
initialObstacleInterval == 100
initialCoinInterval == 80
minObstacleInterval == 60
minCoinInterval == 40

minSpawnDistance == 500
spawnJitter == 300
obstacleClearance == 350
enemyScorePeriod == 200
maxEnemies == 3

coinThreshold == 20
superThreshold == 100

playerGroundY == Px(canvasHeight - playerHeight)
enemyGroundY == Px(canvasHeight - enemyHeight)

(***************************************************************************)
(* Player                                                                  *)
(***************************************************************************)
NewPlayer ==
    [ y |-> Px(canvasHeight - 48), velocityY |-> 0, isJumping |-> FALSE,
      canDoubleJump |-> FALSE, hasDoubleJumped |-> FALSE,
      hasPowerUp |-> FALSE, isSuperPowerUp |-> FALSE, powerUpTimer |-> 0,
      isAttacking |-> FALSE, attackTimer |-> 0, attackCooldown |-> 0,
      attackInvincibilityTimer |-> 0 ]

deactivatePowerUp(p) ==
    [p EXCEPT !.hasPowerUp = FALSE, !.isSuperPowerUp = FALSE, !.powerUpTimer = 0]

activatePowerUpOn(p, isSuper) ==
    [p EXCEPT !.hasPowerUp = TRUE, !.isSuperPowerUp = isSuper, !.powerUpTimer = 0]

\* Variant: the ground stops the fall, the actor stays airborne
PlayerPhysicsNeverLanding(p) ==
    IF p.isJumping
    THEN LET y1 == p.y + p.velocityY
             v1 == p.velocityY + playerGravity
         IN IF y1 >= playerGroundY
            THEN [p EXCEPT !.y = playerGroundY, !.velocityY = 0]
            ELSE [p EXCEPT !.y = y1, !.velocityY = v1]
    ELSE p

\* Variant: a landing that leaves the double jump used up
PlayerPhysicsKeepingFlags(p) ==
    IF p.isJumping
    THEN LET y1 == p.y + p.velocityY
             v1 == p.velocityY + playerGravity
         IN IF y1 >= playerGroundY
            THEN [p EXCEPT !.y = playerGroundY, !.isJumping = FALSE,
                           !.velocityY = 0]
            ELSE [p EXCEPT !.y = y1, !.velocityY = v1]
    ELSE p

\* The actor after activatePowerUp(isSuper) and age updates spent standing
AgedPowerUp(isSuper, age) ==
    [activatePowerUpOn(NewPlayer, isSuper) EXCEPT !.powerUpTimer = age]

\* Player.update, jumping physics
PlayerPhysics(p) ==
    IF p.isJumping
    THEN LET y1 == p.y + p.velocityY
             v1 == p.velocityY + playerGravity
         IN IF y1 >= playerGroundY
            THEN [p EXCEPT !.y = playerGroundY, !.isJumping = FALSE,
                           !.velocityY = 0, !.canDoubleJump = FALSE,
                           !.hasDoubleJumped = FALSE]
            ELSE [p EXCEPT !.y = y1, !.velocityY = v1]
    ELSE p

\* Variant: the cooldown starts with the attack's first update
PlayerAttackStepEarlyCooldown(p) ==
    IF p.isAttacking
    THEN LET t1 == p.attackTimer + 1
             q  == IF t1 >= playerAttackDuration
                   THEN [p EXCEPT !.isAttacking = FALSE, !.attackTimer = 0]
                   ELSE [p EXCEPT !.attackTimer = t1]
         IN IF q.attackTimer = 1
            THEN [q EXCEPT !.attackInvincibilityTimer = attackInvincibilityDuration,
                           !.attackCooldown = playerAttackCooldownDuration]
            ELSE q
    ELSE IF p.attackCooldown > 0
         THEN [p EXCEPT !.attackCooldown = p.attackCooldown - 1]
         ELSE p

\* Player.update, attack state and cooldown
PlayerAttackStep(p) ==
    IF p.isAttacking
    THEN LET t1 == p.attackTimer + 1
             q  == IF t1 >= playerAttackDuration
                   THEN [p EXCEPT !.isAttacking = FALSE, !.attackTimer = 0,
                                  !.attackCooldown = playerAttackCooldownDuration]
                   ELSE [p EXCEPT !.attackTimer = t1]
         IN IF q.attackTimer = 1
            THEN [q EXCEPT !.attackInvincibilityTimer = attackInvincibilityDuration]
            ELSE q
    ELSE IF p.attackCooldown > 0
         THEN [p EXCEPT !.attackCooldown = p.attackCooldown - 1]
         ELSE p

\* Variant: the attack invincibility timer does not run down
PlayerInvincibilityStepFrozen(p) == p

\* Player.update, attack invincibility timer
PlayerInvincibilityStep(p) ==
    IF p.attackInvincibilityTimer > 0
    THEN [p EXCEPT !.attackInvincibilityTimer = p.attackInvincibilityTimer - 1]
    ELSE p

\* Variant: the power-up runs one update longer
PlayerPowerUpStepLate(p) ==
    IF p.hasPowerUp
    THEN LET t1 == p.powerUpTimer + 1
         IN IF t1 > powerUpDuration
            THEN deactivatePowerUp([p EXCEPT !.powerUpTimer = t1])
            ELSE [p EXCEPT !.powerUpTimer = t1]
    ELSE p

\* Variant: a Super power-up turns into a regular one half-way through
PlayerPowerUpStepFadingSuper(p) ==
    IF p.hasPowerUp
    THEN LET t1 == p.powerUpTimer + 1
         IN IF t1 >= powerUpDuration
            THEN deactivatePowerUp([p EXCEPT !.powerUpTimer = t1])
            ELSE [p EXCEPT !.powerUpTimer = t1,
                           !.isSuperPowerUp = @ /\ 2 * t1 < powerUpDuration]
    ELSE p

\* Player.update, power-up timer
PlayerPowerUpStep(p) ==
    IF p.hasPowerUp
    THEN LET t1 == p.powerUpTimer + 1
         IN IF t1 >= powerUpDuration
            THEN deactivatePowerUp([p EXCEPT !.powerUpTimer = t1])
            ELSE [p EXCEPT !.powerUpTimer = t1]
    ELSE p

PlayerUpdate(p) ==
    PlayerPowerUpStep(PlayerInvincibilityStep(PlayerAttackStep(PlayerPhysics(p))))

\* Variant: the attack's invincibility window is forgotten
isInvinciblePowerUpOnly(p) == p.hasPowerUp

\* Player.isInvincible
isInvincible(p) == p.hasPowerUp \/ p.attackInvincibilityTimer > 0

\* jumpForce * 0.8 and jumpForce * 0.7, in tenths of a pixel
doubleJumpVelocity == (Px(jumpForce) * 8) \div 10
superJumpVelocity == (Px(jumpForce) * 7) \div 10

\* Variant: the jump in mid-air after the double jump needs no power-up
jumpUnlimited(p) ==
    IF ~p.isJumping
    THEN [p EXCEPT !.isJumping = TRUE, !.velocityY = Px(jumpForce),
                   !.canDoubleJump = TRUE]
    ELSE IF p.canDoubleJump /\ ~p.hasDoubleJumped
    THEN [p EXCEPT !.velocityY = doubleJumpVelocity, !.hasDoubleJumped = TRUE,
                   !.canDoubleJump = FALSE]
    ELSE [p EXCEPT !.velocityY = superJumpVelocity]

\* Variant: with the super power-up every jump in mid-air is the weak one
jumpSuperFirst(p) ==
    IF ~p.isJumping
    THEN [p EXCEPT !.isJumping = TRUE, !.velocityY = Px(jumpForce),
                   !.canDoubleJump = TRUE]
    ELSE IF p.isSuperPowerUp
    THEN [p EXCEPT !.velocityY = superJumpVelocity]
    ELSE IF p.canDoubleJump /\ ~p.hasDoubleJumped
    THEN [p EXCEPT !.velocityY = doubleJumpVelocity, !.hasDoubleJumped = TRUE,
                   !.canDoubleJump = FALSE]
    ELSE p

jump(p) ==
    IF ~p.isJumping
    THEN [p EXCEPT !.isJumping = TRUE, !.velocityY = Px(jumpForce),
                   !.canDoubleJump = TRUE]
    ELSE IF p.canDoubleJump /\ ~p.hasDoubleJumped
    THEN [p EXCEPT !.velocityY = doubleJumpVelocity, !.hasDoubleJumped = TRUE,
                   !.canDoubleJump = FALSE]
    ELSE IF p.isSuperPowerUp
    THEN [p EXCEPT !.velocityY = superJumpVelocity]
    ELSE p

\* Variant: an attack starts whatever the actor is doing
attackAlways(p) == [p EXCEPT !.isAttacking = TRUE, !.attackTimer = 0]

\* Variant: an attack may start during the cooldown
attackDuringCooldown(p) ==
    IF ~p.isAttacking
    THEN [p EXCEPT !.isAttacking = TRUE, !.attackTimer = 0]
    ELSE p

attack(p) ==
    IF ~p.isAttacking /\ p.attackCooldown <= 0
    THEN [p EXCEPT !.isAttacking = TRUE, !.attackTimer = 0]
    ELSE p

\* Variant: rectangles that share an edge count as overlapping
RectOverlapTouching(ax, ay, aw, ah, bx, by, bw, bh) ==
    /\ ax <= bx + bw
    /\ ax + aw >= bx
    /\ ay <= by + bh
    /\ ay + ah >= by

\* The rectangle test of Player.collidesWith for obstacles and enemies
RectOverlap(ax, ay, aw, ah, bx, by, bw, bh) ==
    /\ ax < bx + bw
    /\ ax + aw > bx
    /\ ay < by + bh
    /\ ay + ah > by

\* Variant: coins are tested against the plain rectangle as well
collidesWithPlainBox(p, object) ==
    RectOverlap(Px(playerX), p.y, Px(playerWidth), Px(playerHeight),
                object.x, object.y, object.width, object.height)

\* Variant: the extended hitbox is used for every kind of object
collidesWithWideBox(p, object) ==
    /\ Px(playerX) < object.x + object.width + Px(extendedHitbox)
    /\ Px(playerX) + Px(playerWidth) + Px(extendedHitbox) > object.x
    /\ p.y < object.y + object.height + Px(extendedHitbox)
    /\ p.y + Px(playerHeight) + Px(extendedHitbox) > object.y

\* Player.collidesWith: coins get the hitbox extended by extendedHitbox
collidesWith(p, object) ==
    IF object.kind = "Coin"
    THEN /\ Px(playerX) < object.x + object.width + Px(extendedHitbox)
         /\ Px(playerX) + Px(playerWidth) + Px(extendedHitbox) > object.x
         /\ p.y < object.y + object.height + Px(extendedHitbox)
         /\ p.y + Px(playerHeight) + Px(extendedHitbox) > object.y
    ELSE RectOverlap(Px(playerX), p.y, Px(playerWidth), Px(playerHeight),
                     object.x, object.y, object.width, object.height)

(***************************************************************************)
(* Obstacle, Coin, Enemy.  Math.random() is a draw r in 0..99 read as      *)
(* r / 100.                                                                *)
(***************************************************************************)
\* Variant: an obstacle is created well to the right of the field
NewObstacleFarRight(speed, heightValue) ==
    [ kind |-> "Obstacle", x |-> Px(canvasWidth + minSpawnDistance),
      y |-> Px(canvasHeight - 60),
      width |-> Px(obstacleSize), height |-> Px(obstacleSize),
      speed |-> speed, markedForDeletion |-> FALSE ]

\* new Obstacle(game, speed); heightValue is the constructor's first draw
NewObstacle(speed, heightValue) ==
    LET groundPosition == canvasHeight - 50
        heightVariation == 100
        yPx == IF heightValue < 70 THEN groundPosition - (heightVariation \div 10)
               ELSE IF heightValue < 85 THEN groundPosition - (heightVariation \div 2)
               ELSE groundPosition - ((heightVariation * 8) \div 10)
    IN [ kind |-> "Obstacle", x |-> Px(canvasWidth), y |-> Px(yPx),
         width |-> Px(obstacleSize), height |-> Px(obstacleSize),
         speed |-> speed, markedForDeletion |-> FALSE ]

\* Variant: an obstacle gathers speed as it moves
ObstacleUpdateSpeedingUp(o) ==
    LET x1 == o.x - o.speed
    IN [o EXCEPT !.x = x1, !.speed = @ + 1,
                 !.markedForDeletion = IF x1 + o.width < 0 THEN TRUE ELSE @]

\* Obstacle.update
ObstacleUpdate(o) ==
    LET x1 == o.x - o.speed
    IN [o EXCEPT !.x = x1,
                 !.markedForDeletion = IF x1 + o.width < 0 THEN TRUE ELSE @]

\* Coin.determineSize
determineSize(sizeRoll) ==
    IF sizeRoll < 60 THEN 16 ELSE IF sizeRoll < 90 THEN 24 ELSE 32

\* Coin.determineValue
determineValue(size) ==
    IF size = 16 THEN 1 ELSE IF size = 24 THEN 2 ELSE 3

\* new Coin(game, speed): sizeRoll, heightValue and the inner height draw
NewCoin(speed, sizeRoll, heightValue, inner, p) ==
    LET size == determineSize(sizeRoll)
        groundPosition == Px(canvasHeight - 20)
        playerCenterY == p.y + (Px(playerHeight) \div 2) - (Px(size) \div 2)
        y == IF heightValue < 15 THEN groundPosition - Px(30)
             ELSE IF heightValue < 40 THEN playerCenterY
             ELSE IF heightValue < 65 THEN groundPosition - Px(80) - ((inner * Px(40)) \div 100)
             ELSE IF heightValue < 90 THEN groundPosition - Px(120) - ((inner * Px(40)) \div 100)
             ELSE groundPosition - Px(180) - ((inner * Px(30)) \div 100)
    IN [ kind |-> "Coin", x |-> Px(canvasWidth), y |-> y,
         width |-> Px(size), height |-> Px(size), size |-> size,
         value |-> determineValue(size), speed |-> speed,
         markedForDeletion |-> FALSE ]

RECURSIVE SqrtBetween(_, _, _)
SqrtBetween(n, lo, hi) ==
    IF lo >= hi THEN lo
    ELSE LET mid == (lo + hi + 1) \div 2
         IN IF mid * mid <= n THEN SqrtBetween(n, mid, hi)
            ELSE SqrtBetween(n, lo, mid - 1)

\* Math.sqrt, rounded down
Sqrt(n) == SqrtBetween(n, 0, Px(attractionRange))

\* Variant: coins are drawn to the actor whether or not it has a power-up
CoinUpdateAlwaysPulled(c, p) ==
    LET x1 == c.x - c.speed
        distanceX == Px(playerX) - x1
        distanceY == p.y - c.y
        sq == distanceX * distanceX + distanceY * distanceY
        inRange == sq < Px(attractionRange) * Px(attractionRange)
        distance == Sqrt(sq)
        force == ((Px(attractionRange) - distance) * Px(attractionMaxForce))
                    \div Px(attractionRange)
        pulled == inRange /\ distance > 0
        x2 == IF pulled THEN x1 + ((distanceX * force) \div distance) ELSE x1
        y2 == IF pulled THEN c.y + ((distanceY * force) \div distance) ELSE c.y
    IN [c EXCEPT !.x = x2, !.y = y2,
                 !.markedForDeletion = IF x2 + c.width < 0 THEN TRUE ELSE @]

\* Coin.update: translation, attraction towards a powered-up player, removal flag
CoinUpdate(c, p) ==
    LET x1 == c.x - c.speed
        distanceX == Px(playerX) - x1
        distanceY == p.y - c.y
        sq == distanceX * distanceX + distanceY * distanceY
        inRange == sq < Px(attractionRange) * Px(attractionRange)
        distance == Sqrt(sq)
        \* (1 - distance / attractionRange) * 5, in tenths of a pixel
        force == ((Px(attractionRange) - distance) * Px(attractionMaxForce))
                    \div Px(attractionRange)
        pulled == p.hasPowerUp /\ inRange /\ distance > 0
        x2 == IF pulled THEN x1 + ((distanceX * force) \div distance) ELSE x1
        y2 == IF pulled THEN c.y + ((distanceY * force) \div distance) ELSE c.y
    IN [c EXCEPT !.x = x2, !.y = y2,
                 !.markedForDeletion = IF x2 + c.width < 0 THEN TRUE ELSE @]

\* new Enemy(game, x, y)
NewEnemy(x) ==
    [ kind |-> "Enemy", x |-> x, y |-> Px(canvasHeight - 48),
      width |-> Px(enemyWidth), height |-> Px(enemyHeight), velocityY |-> 0,
      isAttacking |-> FALSE, attackTimer |-> 0, attackCooldown |-> 0,
      markedForDeletion |-> FALSE ]

\* velocityX * 0.8, in tenths of a pixel
enemyAttackVelocityX == (Px(enemyVelocityX) * 8) \div 10

\* Enemy.update, gravity
EnemyFall(e) ==
    IF e.y < enemyGroundY
    THEN LET v1 == e.velocityY + enemyGravity
             y1 == e.y + v1
         IN IF y1 >= enemyGroundY
            THEN [e EXCEPT !.y = enemyGroundY, !.velocityY = 0]
            ELSE [e EXCEPT !.y = y1, !.velocityY = v1]
    ELSE e

\* Variant: an attack that ends without a cooldown
EnemyAttackStepNoCooldown(e) ==
    IF e.isAttacking
    THEN LET t1 == e.attackTimer + 1
         IN IF t1 >= enemyAttackDuration
            THEN [e EXCEPT !.isAttacking = FALSE, !.attackTimer = 0]
            ELSE [e EXCEPT !.attackTimer = t1]
    ELSE IF e.attackCooldown > 0
         THEN [e EXCEPT !.attackCooldown = e.attackCooldown - 1]
         ELSE e

\* Enemy.update, attack timer and cooldown
EnemyAttackStep(e) ==
    IF e.isAttacking
    THEN LET t1 == e.attackTimer + 1
         IN IF t1 >= enemyAttackDuration
            THEN [e EXCEPT !.isAttacking = FALSE, !.attackTimer = 0,
                           !.attackCooldown = enemyAttackCooldownDuration]
            ELSE [e EXCEPT !.attackTimer = t1]
    ELSE IF e.attackCooldown > 0
         THEN [e EXCEPT !.attackCooldown = e.attackCooldown - 1]
         ELSE e

\* Enemy.update, start of an attack near the player (Enemy.attack)
EnemyMaybeAttack(e) ==
    IF ~e.isAttacking /\ e.attackCooldown = 0
       /\ Px(playerX) - e.x > -Px(enemyAttackRange)
    THEN [e EXCEPT !.isAttacking = TRUE, !.attackTimer = 0]
    ELSE e

\* Enemy.update
EnemyUpdate(e) ==
    LET x1 == IF e.isAttacking THEN e.x + enemyAttackVelocityX
              ELSE e.x + Px(enemyVelocityX)
        moved == [e EXCEPT !.x = x1]
    IN IF x1 + e.width < -Px(enemyOffscreenBuffer)
       THEN [moved EXCEPT !.markedForDeletion = TRUE]
       ELSE EnemyMaybeAttack(EnemyAttackStep(EnemyFall(moved)))

\* Enemy.collidesWith(object)
EnemyCollidesWith(e, object) ==
    RectOverlap(e.x, e.y, e.width, e.height,
                object.x, object.y, object.width, object.height)

\* Variant: a reset that also flags the enemy for removal
EnemyResetRemoving(e, x) ==
    [e EXCEPT !.x = x, !.y = enemyGroundY, !.isAttacking = FALSE,
              !.attackTimer = 0, !.attackCooldown = 0,
              !.markedForDeletion = TRUE]

\* Enemy.reset(x) as the collision phase calls it (y is left to groundY)
EnemyReset(e, x) ==
    [e EXCEPT !.x = x, !.y = enemyGroundY, !.isAttacking = FALSE,
              !.attackTimer = 0, !.attackCooldown = 0,
              !.markedForDeletion = FALSE]

\* Variant: a filter that lets flagged members through
SweepKeepingAll(seq) == seq

\* Array.prototype.filter(x => !x.markedForDeletion)
Sweep(seq) == SelectSeq(seq, LAMBDA e : ~e.markedForDeletion)

\* Array.prototype.forEach(x => x.update()) on each pool
UpdateObstacles(seq) == [i \in 1..Len(seq) |-> ObstacleUpdate(seq[i])]
UpdateCoins(seq, p) == [i \in 1..Len(seq) |-> CoinUpdate(seq[i], p)]
UpdateEnemies(seq) == [i \in 1..Len(seq) |-> EnemyUpdate(seq[i])]

(***************************************************************************)
(* SpawnManager                                                            *)
(***************************************************************************)
NewSpawnManager ==
    [ obstacles |-> <<>>, coins |-> <<>>, obstacleTimer |-> 0, coinTimer |-> 0,
      obstacleInterval |-> initialObstacleInterval,
      coinInterval |-> initialCoinInterval, hasActiveObstacle |-> FALSE ]

\* baseSpeed * (1 + floor(score / 10) * 0.1), in tenths of a pixel
CurrentSpeed(sc) == baseSpeed * (Scale + (sc \div 10))

\* currentSpeed * 0.8
CoinSpeed(sc) == (CurrentSpeed(sc) * 8) \div 10

\* Variant: the floor of an interval is ignored
MaxIgnoringFloor(a, b) == b

\* Math.max
Max(a, b) == IF a >= b THEN a ELSE b

\* Variant: the timer runs whether or not an obstacle is live
ObstacleSpawnAlways(sm) == TRUE

\* SpawnManager.update, the obstacle hasActiveObstacle lets through
ObstacleSpawnAllowed(sm) == ~(Len(sm.obstacles) > 0)

\* SpawnManager.update, obstacle spawn timing
SpawnObstacleStep(sm, sc, rnd) ==
    LET sm0 == [sm EXCEPT !.hasActiveObstacle = Len(sm.obstacles) > 0]
    IN IF ObstacleSpawnAllowed(sm)
       THEN LET t1 == sm0.obstacleTimer + 1
            IN IF t1 >= sm0.obstacleInterval
               THEN [sm0 EXCEPT
                       !.obstacleTimer = 0,
                       !.obstacles = Append(@, NewObstacle(CurrentSpeed(sc), rnd.obstacleHeight)),
                       !.obstacleInterval = Max(minObstacleInterval, @ - 1)]
               ELSE [sm0 EXCEPT !.obstacleTimer = t1]
       ELSE sm0

\* Variant: the coin timer waits while an obstacle is live
SpawnCoinStepStalled(sm, sc, rnd, p) ==
    LET t1 == sm.coinTimer + 1
    IN IF Len(sm.obstacles) > 0 THEN sm
       ELSE IF t1 >= sm.coinInterval
       THEN [sm EXCEPT
               !.coinTimer = 0,
               !.coins = Append(@, NewCoin(CoinSpeed(sc), rnd.coinSize,
                                           rnd.coinHeight, rnd.coinInner, p)),
               !.coinInterval = Max(minCoinInterval, @ - 1)]
       ELSE [sm EXCEPT !.coinTimer = t1]

\* SpawnManager.update, coin spawn timing
SpawnCoinStep(sm, sc, rnd, p) ==
    LET t1 == sm.coinTimer + 1
    IN IF t1 >= sm.coinInterval
       THEN [sm EXCEPT
               !.coinTimer = 0,
               !.coins = Append(@, NewCoin(CoinSpeed(sc), rnd.coinSize,
                                           rnd.coinHeight, rnd.coinInner, p)),
               !.coinInterval = Max(minCoinInterval, @ - 1)]
       ELSE [sm EXCEPT !.coinTimer = t1]

\* SpawnManager.update, movement and the removal sweep
MoveAndSweep(sm, p) ==
    [sm EXCEPT !.obstacles = Sweep(UpdateObstacles(@)),
               !.coins = Sweep(UpdateCoins(@, p))]

SpawnManagerUpdate(sm, sc, rnd, p) ==
    MoveAndSweep(SpawnCoinStep(SpawnObstacleStep(sm, sc, rnd), sc, rnd, p), p)

\* Whether this update will draw for a new obstacle / coin
WillSpawnObstacle(sm) ==
    Len(sm.obstacles) = 0 /\ sm.obstacleTimer + 1 >= sm.obstacleInterval
WillSpawnCoin(sm) == sm.coinTimer + 1 >= sm.coinInterval

(***************************************************************************)
(* PowerUpManager                                                          *)
(***************************************************************************)
NewPowerUpManager ==
    [ isPowerUpAvailable |-> FALSE, isSuperPowerUpAvailable |-> FALSE,
      lastCheckedScore |-> 0 ]

\* Variant: a super threshold crossed while a power-up is active is dropped
checkPowerUpAvailabilityIdleOnly(pum, coinCount, hasPowerUp) ==
    IF coinCount = pum.lastCheckedScore
    THEN [pum |-> pum, result |-> FALSE]
    ELSE LET pum1 == [pum EXCEPT !.lastCheckedScore = coinCount]
         IN IF hasPowerUp
            THEN [pum |-> pum1, result |-> FALSE]
            ELSE IF coinCount \div superThreshold
                        > pum.lastCheckedScore \div superThreshold
            THEN [pum |-> [pum1 EXCEPT !.isSuperPowerUpAvailable = TRUE,
                                       !.isPowerUpAvailable = FALSE],
                  result |-> TRUE]
            ELSE IF /\ coinCount \div coinThreshold
                          > pum.lastCheckedScore \div coinThreshold
                    /\ coinCount % superThreshold # 0
            THEN [pum |-> [pum1 EXCEPT !.isPowerUpAvailable = TRUE],
                  result |-> TRUE]
            ELSE [pum |-> pum1, result |-> FALSE]

\* Variant: a regular threshold counts whether or not a power-up is active
checkPowerUpAvailabilityWhileActive(pum, coinCount, hasPowerUp) ==
    IF coinCount = pum.lastCheckedScore
    THEN [pum |-> pum, result |-> FALSE]
    ELSE LET pum1 == [pum EXCEPT !.lastCheckedScore = coinCount]
         IN IF coinCount \div superThreshold
                  > pum.lastCheckedScore \div superThreshold
            THEN [pum |-> [pum1 EXCEPT !.isSuperPowerUpAvailable = TRUE,
                                       !.isPowerUpAvailable = FALSE],
                  result |-> TRUE]
            ELSE IF /\ coinCount \div coinThreshold
                          > pum.lastCheckedScore \div coinThreshold
                    /\ coinCount % superThreshold # 0
            THEN [pum |-> [pum1 EXCEPT !.isPowerUpAvailable = TRUE],
                  result |-> TRUE]
            ELSE [pum |-> pum1, result |-> FALSE]

\* Variant: the score of the evaluation is not remembered
checkPowerUpAvailabilityForgetful(pum, coinCount, hasPowerUp) ==
    IF coinCount = pum.lastCheckedScore
    THEN [pum |-> pum, result |-> FALSE]
    ELSE IF coinCount \div superThreshold
                > pum.lastCheckedScore \div superThreshold
    THEN [pum |-> [pum EXCEPT !.isSuperPowerUpAvailable = TRUE,
                              !.isPowerUpAvailable = FALSE],
          result |-> TRUE]
    ELSE IF /\ coinCount \div coinThreshold
                  > pum.lastCheckedScore \div coinThreshold
            /\ coinCount % superThreshold # 0
            /\ ~hasPowerUp
    THEN [pum |-> [pum EXCEPT !.isPowerUpAvailable = TRUE], result |-> TRUE]
    ELSE [pum |-> pum, result |-> FALSE]

\* PowerUpManager.checkPowerUpAvailability(coinCount): the manager after the
\* call and the value returned
checkPowerUpAvailability(pum, coinCount, hasPowerUp) ==
    IF coinCount = pum.lastCheckedScore
    THEN [pum |-> pum, result |-> FALSE]
    ELSE LET lastSuperThresholdPassed == pum.lastCheckedScore \div superThreshold
             currentSuperThresholdPassed == coinCount \div superThreshold
             lastRegularThresholdPassed == pum.lastCheckedScore \div coinThreshold
             currentRegularThresholdPassed == coinCount \div coinThreshold
             pum1 == [pum EXCEPT !.lastCheckedScore = coinCount]
         IN IF currentSuperThresholdPassed > lastSuperThresholdPassed
            THEN [pum |-> [pum1 EXCEPT !.isSuperPowerUpAvailable = TRUE,
                                       !.isPowerUpAvailable = FALSE],
                  result |-> TRUE]
            ELSE IF /\ currentRegularThresholdPassed > lastRegularThresholdPassed
                    /\ coinCount % superThreshold # 0
                    /\ ~hasPowerUp
            THEN [pum |-> [pum1 EXCEPT !.isPowerUpAvailable = TRUE],
                  result |-> TRUE]
            ELSE [pum |-> pum1, result |-> FALSE]

\* PowerUpManager.reset
PowerUpManagerReset(pum) ==
    [pum EXCEPT !.isPowerUpAvailable = FALSE, !.isSuperPowerUpAvailable = FALSE]

(***************************************************************************)
(* Game.  A world w gathers the fields a handler reads and writes; log     *)
(* records what the last step did (it is not program state).               *)
(***************************************************************************)
\* op: the handler that ran last; atCollision: the actor and the pools as the
\* collision phase found them; evals: its collidesWith evaluations in order;
\* emptied: Game.update found the enemy pool empty; spawns: the calls of
\* spawnEnemy, each with its candidate x and whether the enemy was added;
\* checks: the threshold evaluation; activations: power-ups activated;
\* before: the actor and the tracker as a call made on its own found them;
\* deltaTime: the elapsed time gameLoop computed from its timestamp
EmptyLog(op) ==
    [ op |-> op, atCollision |-> <<>>, evals |-> <<>>, emptied |-> FALSE,
      spawns |-> <<>>, checks |-> <<>>, activations |-> 0, before |-> <<>>,
      deltaTime |-> 0 ]

World ==
    [ isRunning |-> isRunning, gameOver |-> gameOver, score |-> score,
      highScore |-> highScore, player |-> player, spawnManager |-> spawnManager,
      powerUpManager |-> powerUpManager, enemies |-> enemies,
      retryTimers |-> retryTimers, log |-> log ]

\* One collidesWith evaluation of the collision phase: what was compared (w0 is
\* the world before the evaluation, w1 the world after its consequences)
Eval(w0, w1, object) ==
    [ object |-> object, playerY |-> w0.player.y,
      hasPowerUp |-> w0.player.hasPowerUp,
      attackInvincibilityTimer |-> w0.player.attackInvincibilityTimer,
      scoreBefore |-> w0.score, scoreAfter |-> w1.score,
      highScoreBefore |-> w0.highScore, highScoreAfter |-> w1.highScore,
      gameOverBefore |-> w0.gameOver, gameOverAfter |-> w1.gameOver ]

Logged(w0, w1, object) ==
    [w1 EXCEPT !.log.evals = Append(@, Eval(w0, w1, object))]

\* Variant: the availability flags are not cleared by the activation
activatePowerUpKeepFlag(w) ==
    IF w.powerUpManager.isSuperPowerUpAvailable
    THEN [w EXCEPT !.player = activatePowerUpOn(@, TRUE),
                   !.log.activations = @ + 1]
    ELSE IF w.powerUpManager.isPowerUpAvailable
    THEN [w EXCEPT !.player = activatePowerUpOn(@, FALSE),
                   !.log.activations = @ + 1]
    ELSE w

\* Variant: the regular power-up is preferred to the super one
activatePowerUpRegularFirst(w) ==
    IF w.powerUpManager.isPowerUpAvailable
    THEN [w EXCEPT !.player = activatePowerUpOn(@, FALSE),
                   !.powerUpManager.isPowerUpAvailable = FALSE,
                   !.log.activations = @ + 1]
    ELSE IF w.powerUpManager.isSuperPowerUpAvailable
    THEN [w EXCEPT !.player = activatePowerUpOn(@, TRUE),
                   !.powerUpManager.isSuperPowerUpAvailable = FALSE,
                   !.log.activations = @ + 1]
    ELSE w

\* PowerUpManager.activatePowerUp; log.activations counts the calls that
\* returned true
activatePowerUp(w) ==
    IF w.powerUpManager.isSuperPowerUpAvailable
    THEN [w EXCEPT !.player = activatePowerUpOn(@, TRUE),
                   !.powerUpManager.isSuperPowerUpAvailable = FALSE,
                   !.log.activations = @ + 1]
    ELSE IF w.powerUpManager.isPowerUpAvailable
    THEN [w EXCEPT !.player = activatePowerUpOn(@, FALSE),
                   !.powerUpManager.isPowerUpAvailable = FALSE,
                   !.log.activations = @ + 1]
    ELSE w

\* Variant: the score is assigned instead of increased
addScoreAssign(w, points) ==
    [w EXCEPT !.score = points, !.highScore = IF points > @ THEN points ELSE @]

\* Variant: the best score is not brought up
addScoreNoBest(w, points) == [w EXCEPT !.score = @ + points]

\* Game.addScore
addScore(w, points) ==
    LET s1 == w.score + points
    IN [w EXCEPT !.score = s1, !.highScore = IF s1 > @ THEN s1 ELSE @]

\* Game.endGame
endGame(w) == [w EXCEPT !.gameOver = TRUE]

Abs(n) == IF n < 0 THEN -n ELSE n

\* Variant: the candidate is placed at the right edge, without minSpawnDistance
spawnEnemyAtEdge(w, jitter) ==
    LET x == Px(canvasWidth) + jitter
        obstacles == w.spawnManager.obstacles
        noObstaclesNearby ==
            ~ \E i \in 1..Len(obstacles) : Abs(obstacles[i].x - x) < Px(obstacleClearance)
        w1 == [w EXCEPT !.log.spawns = Append(@, [x |-> x, added |-> noObstaclesNearby])]
    IN IF noObstaclesNearby
       THEN [w1 EXCEPT !.enemies = Append(@, NewEnemy(x))]
       ELSE [w1 EXCEPT !.retryTimers = @ + 1]

\* Game.spawnEnemy; jitter is Math.random() * 300 in tenths of a pixel
spawnEnemy(w, jitter) ==
    LET x == Px(canvasWidth + minSpawnDistance) + jitter
        obstacles == w.spawnManager.obstacles
        noObstaclesNearby ==
            ~ \E i \in 1..Len(obstacles) : Abs(obstacles[i].x - x) < Px(obstacleClearance)
        w1 == [w EXCEPT !.log.spawns = Append(@, [x |-> x, added |-> noObstaclesNearby])]
    IN IF noObstaclesNearby
       THEN [w1 EXCEPT !.enemies = Append(@, NewEnemy(x))]
       ELSE [w1 EXCEPT !.retryTimers = @ + 1]

Jitter(r) == (r * Px(spawnJitter)) \div 100

\* Variant: the score-triggered spawn does not look at the size of the pool
ScoreSpawnUnbounded(w, rnd) ==
    IF w.score > 0 /\ w.score % enemyScorePeriod = 0
    THEN spawnEnemy(w, Jitter(rnd.enemyJitter))
    ELSE w

\* Game.update, the score-triggered enemy spawn
ScoreSpawn(w, rnd) ==
    IF w.score > 0 /\ w.score % enemyScorePeriod = 0 /\ Len(w.enemies) < maxEnemies
    THEN spawnEnemy(w, Jitter(rnd.enemyJitter))
    ELSE w

\* Variant: an empty enemy pool is left empty
RefillEnemiesNever(w, rnd) == w

\* Game.update, the refill of an empty enemy pool
RefillEnemies(w, rnd) ==
    IF Len(w.enemies) = 0
    THEN spawnEnemy([w EXCEPT !.log.emptied = TRUE], Jitter(rnd.enemyJitter2))
    ELSE w

\* Game.update
GameUpdate(w, rnd) ==
    LET p1 == PlayerUpdate(w.player)
        w1 == [w EXCEPT !.player = p1,
                        !.spawnManager = SpawnManagerUpdate(@, w.score, rnd, p1),
                        !.enemies = UpdateEnemies(@)]
        w2 == ScoreSpawn(w1, rnd)
        w3 == [w2 EXCEPT !.enemies = Sweep(@)]
    IN RefillEnemies(w3, rnd)

ObstaclePoints(p) ==
    IF p.attackInvincibilityTimer > 0 /\ ~p.hasPowerUp THEN 2 ELSE 1

EnemyPoints(p) ==
    IF p.attackInvincibilityTimer > 0 /\ ~p.hasPowerUp THEN 5 ELSE 2

\* Game.checkObstacleCollisions, from the i-th obstacle on
RECURSIVE ObstacleLoop(_, _)
ObstacleLoop(w, i) ==
    IF i > Len(w.spawnManager.obstacles) THEN w
    ELSE LET o == w.spawnManager.obstacles[i]
         IN IF collidesWith(w.player, o)
            THEN IF isInvincible(w.player)
                 THEN LET w1 == [w EXCEPT
                                   !.spawnManager.obstacles[i].markedForDeletion = TRUE]
                          w2 == addScore(w1, ObstaclePoints(w.player))
                      IN ObstacleLoop(Logged(w, w2, o), i + 1)
                 ELSE Logged(w, endGame(w), o)
            ELSE ObstacleLoop(Logged(w, w, o), i + 1)

checkObstacleCollisions(w) == ObstacleLoop(w, 1)

\* Game.checkEnemyCollisions, from the i-th enemy on
RECURSIVE EnemyLoop(_, _)
EnemyLoop(w, i) ==
    IF i > Len(w.enemies) THEN w
    ELSE LET e == w.enemies[i]
         IN IF collidesWith(w.player, e)
            THEN IF isInvincible(w.player)
                 THEN LET w1 == [w EXCEPT
                                   !.enemies[i] = EnemyReset(@, Px(canvasWidth + enemyResetOffset))]
                          w2 == addScore(w1, EnemyPoints(w.player))
                      IN EnemyLoop(Logged(w, w2, e), i + 1)
                 ELSE Logged(w, endGame(w), e)
            ELSE EnemyLoop(Logged(w, w, e), i + 1)

checkEnemyCollisions(w) == EnemyLoop(w, 1)

\* Game.checkCoinCollisions, from the i-th coin on
RECURSIVE CoinLoop(_, _)
CoinLoop(w, i) ==
    IF i > Len(w.spawnManager.coins) THEN w
    ELSE LET c == w.spawnManager.coins[i]
         IN IF collidesWith(w.player, c)
            THEN LET w1 == [w EXCEPT
                              !.spawnManager.coins[i].markedForDeletion = TRUE]
                 IN CoinLoop(Logged(w, addScore(w1, c.value), c), i + 1)
            ELSE CoinLoop(Logged(w, w, c), i + 1)

checkCoinCollisions(w) == CoinLoop(w, 1)

\* Game.checkCollisions
checkCollisions(w) ==
    checkCoinCollisions(checkEnemyCollisions(checkObstacleCollisions(w)))

\* Game.gameLoop, the power-up check that ends a frame
PowerUpPhase(w) ==
    LET r == checkPowerUpAvailability(w.powerUpManager, w.score, w.player.hasPowerUp)
        w1 == [w EXCEPT !.powerUpManager = r.pum,
                        !.log.checks =
                            Append(@, [ from |-> w.powerUpManager.lastCheckedScore,
                                        to |-> w.score,
                                        hasPowerUp |-> w.player.hasPowerUp,
                                        regular |-> r.pum.isPowerUpAvailable,
                                        super |-> r.pum.isSuperPowerUpAvailable,
                                        result |-> r.result ])]
    IN IF r.result THEN activatePowerUp(w1) ELSE w1

\* Game.gameLoop: one frame
gameLoop(w, rnd) ==
    IF w.isRunning /\ ~w.gameOver
    THEN LET w1 == GameUpdate([w EXCEPT !.log.deltaTime = rnd.deltaTime], rnd)
             w2 == [w1 EXCEPT !.log.atCollision =
                        << [ player |-> w1.player, score |-> w1.score,
                             obstacles |-> w1.spawnManager.obstacles,
                             coins |-> w1.spawnManager.coins,
                             enemies |-> w1.enemies ] >>]
         IN PowerUpPhase(checkCollisions(w2))
    ELSE w

\* Game.restart
restart(w, jitter) ==
    LET w1 == [w EXCEPT !.score = 0, !.player = NewPlayer,
                        !.spawnManager = NewSpawnManager,
                        !.powerUpManager = PowerUpManagerReset(@),
                        !.enemies = <<>>]
    IN [spawnEnemy(w1, jitter) EXCEPT !.isRunning = TRUE, !.gameOver = FALSE]

(***************************************************************************)
(* Draws of Math.random() a frame may consume                              *)
(***************************************************************************)
ObstacleHeightDraws == {0, 70, 85}
CoinSizeDraws == {0, 60, 90}
CoinHeightDraws == {0, 15, 65}
CoinInnerDraws == {0, 99}
EnemyJitterDraws == {0, 50, 99}

\* timestamp - lastTime in milliseconds for the timestamps gameLoop may be
\* handed: an earlier one, the same one, and the next animation frame
ElapsedDraws == {-16, 0, 16}

\* Whether Game.update will call spawnEnemy
WillSpawnEnemy(w) ==
    \/ w.score > 0 /\ w.score % enemyScorePeriod = 0 /\ Len(w.enemies) < maxEnemies
    \/ Len(Sweep(UpdateEnemies(w.enemies))) = 0

\* The draws the frame of world w consumes (a draw it does not consume is fixed)
Draws(w) ==
    LET spawnsCoin == WillSpawnCoin(w.spawnManager)
        coinHeights == IF spawnsCoin THEN CoinHeightDraws ELSE {0}
    IN { [ obstacleHeight |-> oh, coinSize |-> cs, coinHeight |-> ch,
           coinInner |-> ci, enemyJitter |-> ej, enemyJitter2 |-> ej,
           deltaTime |-> dt ] :
           dt \in ElapsedDraws,
           oh \in (IF WillSpawnObstacle(w.spawnManager) THEN ObstacleHeightDraws ELSE {0}),
           cs \in (IF spawnsCoin THEN CoinSizeDraws ELSE {0}),
           ch \in coinHeights,
           ci \in (IF spawnsCoin THEN CoinInnerDraws ELSE {0}),
           ej \in (IF WillSpawnEnemy(w) THEN EnemyJitterDraws ELSE {0}) }

(***************************************************************************)
(* State machine                                                           *)
(***************************************************************************)
NewTicks == 4
SpawnTicks == 64
CollideTicks == 6
LeaveTicks == 3
MaxIntents == 2
EarlyFrames == 78
EarlyTicks == 24
NearFloorTicks == 48
SpeedTicks == 44
OrderTicks == 3
ScoreSpawnTicks == 7
SuperTicks == 4

SetWorld(w) ==
    /\ isRunning' = w.isRunning
    /\ gameOver' = w.gameOver
    /\ score' = w.score
    /\ highScore' = w.highScore
    /\ player' = w.player
    /\ spawnManager' = w.spawnManager
    /\ powerUpManager' = w.powerUpManager
    /\ enemies' = w.enemies
    /\ retryTimers' = w.retryTimers
    /\ log' = w.log

\* new Game(): the constructor's state for a stored high score and a spawn draw
NewGame(stored, jitter) ==
    spawnEnemy([ isRunning |-> FALSE, gameOver |-> FALSE, score |-> 0,
                 highScore |-> stored, player |-> NewPlayer,
                 spawnManager |-> NewSpawnManager,
                 powerUpManager |-> NewPowerUpManager, enemies |-> <<>>,
                 retryTimers |-> 0, log |-> EmptyLog("new") ], jitter)

StoredHighScores == {0, 7}

(***************************************************************************)
(* Initial states.  A behaviour starts either at the constructor or at a   *)
(* frame boundary in the middle of a run, shortly before the events the    *)
(* properties are about (a full run needs hundreds of frames to get        *)
(* there).  The mid-run states keep what every run keeps at a frame        *)
(* boundary: at most one obstacle, on the lattice canvasWidth - n * speed  *)
(* with obstacleTimer = 0 while it lives; coins on the lattice of their    *)
(* spawn cadence; an enemy nearer than enemyAttackRange + playerX is       *)
(* attacking or cooling down; highScore >= score; a power-up only with the *)
(* score its threshold needs; lastCheckedScore = score; no availability    *)
(* flag set; no retry timer pending.                                       *)
(***************************************************************************)
\* The x of the lattice canvasWidth - n * speed that first falls below limit
\* after exactly lead more updates
LatticeX(speed, lead, limit) ==
    CHOOSE x \in { Px(canvasWidth) - n * speed : n \in 1..400 } :
        /\ x - lead * speed < limit
        /\ x - (lead - 1) * speed >= limit

ObstacleAt(x, speed, heightValue) ==
    [NewObstacle(speed, heightValue) EXCEPT !.x = x]

\* An attacking enemy that first overlaps a grounded player after lead updates
NearEnemy(lead) ==
    LET x == Px(playerX + playerWidth) + lead * (-enemyAttackVelocityX) - 8
        started == Px(playerX + enemyAttackRange)
        n == CHOOSE k \in 0..(enemyAttackDuration - 1) :
                /\ x + k * (-enemyAttackVelocityX) < started
                /\ x + k * (-enemyAttackVelocityX) >= started + Px(enemyVelocityX)
    IN [NewEnemy(x) EXCEPT !.isAttacking = TRUE, !.attackTimer = n]

FarEnemy == NewEnemy(Px(600))

\* An enemy whose attack is over and which leaves the field in the next update
LeavingEnemy ==
    [NewEnemy(-Px(enemyWidth + enemyOffscreenBuffer) + 20)
        EXCEPT !.attackCooldown = enemyAttackCooldownDuration - 10]

\* The coin pool of a run whose coin interval is at its floor: one coin per
\* minCoinInterval updates, the oldest of age `age`, which is of size nearSize
\* at ground level (nearSize = 0: out of a grounded player's reach, as the
\* younger ones are)
HighCoinY == Px(canvasHeight - 20) - Px(120)
GroundCoinY == Px(canvasHeight - 20) - Px(30)

FloorCoins(speed, age, nearSize) ==
    [ i \in 1..(((age - 1) \div minCoinInterval) + 1) |->
        LET a == age - minCoinInterval * (i - 1)
            size == IF i = 1 /\ nearSize # 0 THEN nearSize ELSE 16
        IN [ kind |-> "Coin", x |-> Px(canvasWidth) - a * speed,
             y |-> IF i = 1 /\ nearSize # 0 THEN GroundCoinY ELSE HighCoinY,
             width |-> Px(size), height |-> Px(size), size |-> size,
             value |-> determineValue(size), speed |-> speed,
             markedForDeletion |-> FALSE ] ]

\* The age at which a coin of that speed first overlaps after lead updates
CoinAge(speed, lead) ==
    (Px(canvasWidth) - LatticeX(speed, lead, Px(playerX + playerWidth + extendedHitbox)))
        \div speed

PlayerIn(mode) ==
    IF mode = "regular" THEN [activatePowerUpOn(NewPlayer, FALSE) EXCEPT !.powerUpTimer = 300]
    ELSE IF mode = "super" THEN [activatePowerUpOn(NewPlayer, TRUE) EXCEPT !.powerUpTimer = 300]
    ELSE NewPlayer

\* "threshold": one point short of the first regular power-up
ScoreIn(mode) ==
    IF mode = "regular" THEN 23 ELSE IF mode = "super" THEN 104
    ELSE IF mode = "threshold" THEN coinThreshold - 1 ELSE 0

\* A frame boundary in the middle of a run
MidRun(sc, best, p, obstacles, oTimer, coins, cTimer, en) ==
    [ isRunning |-> TRUE, gameOver |-> FALSE, score |-> sc, highScore |-> best,
      player |-> p,
      spawnManager |->
        [ obstacles |-> obstacles, coins |-> coins, obstacleTimer |-> oTimer,
          coinTimer |-> cTimer, obstacleInterval |-> minObstacleInterval,
          coinInterval |-> minCoinInterval,
          hasActiveObstacle |-> Len(obstacles) > 0 ],
      powerUpManager |-> [NewPowerUpManager EXCEPT !.lastCheckedScore = sc],
      enemies |-> en, retryTimers |-> 0, log |-> EmptyLog("scene") ]

\* obstacle: "none", or the heightValue class of one about to reach the player;
\* enemy: "far", "near" or "leaving"; coin: 0, or the size of one about to be
\* reached
Layouts ==
    { [obstacle |-> "ground", enemy |-> "far",  coin |-> 0],
      [obstacle |-> "medium", enemy |-> "far",  coin |-> 16],
      [obstacle |-> "none",   enemy |-> "near", coin |-> 0],
      [obstacle |-> "none",   enemy |-> "far",  coin |-> 16],
      [obstacle |-> "none",   enemy |-> "far",  coin |-> 24],
      [obstacle |-> "none",   enemy |-> "far",  coin |-> 32],
      [obstacle |-> "ground", enemy |-> "near", coin |-> 24] }

Modes == {"none", "regular", "super", "threshold"}

CollideScene(mode, layout) ==
    LET sc == ScoreIn(mode)
        obstacles ==
            IF layout.obstacle = "none" THEN <<>>
            ELSE << ObstacleAt(LatticeX(CurrentSpeed(sc), 2, Px(playerX + playerWidth)),
                               CurrentSpeed(sc),
                               IF layout.obstacle = "ground" THEN 0 ELSE 70) >>
        age == CoinAge(CoinSpeed(sc), 2)
    IN MidRun(sc, sc + 2, PlayerIn(mode), obstacles,
              IF layout.obstacle = "none" THEN 5 ELSE 0,
              FloorCoins(CoinSpeed(sc), age, layout.coin),
              (age - 1) % minCoinInterval,
              << IF layout.enemy = "near" THEN NearEnemy(2) ELSE FarEnemy >>)

\* The obstacle timer is about to fire, no obstacle is live
SpawnScene ==
    MidRun(0, 5, NewPlayer, <<>>, minObstacleInterval - 2,
           FloorCoins(CoinSpeed(0), 168, 0), 167 % minCoinInterval, <<FarEnemy>>)

\* The only enemy is about to scroll off the left edge, in the update that
\* creates the next obstacle
LeaveScene ==
    MidRun(0, 5, NewPlayer, <<>>, minObstacleInterval - 1,
           FloorCoins(CoinSpeed(0), 168, 0), 167 % minCoinInterval, <<LeavingEnemy>>)

\* A run n frames after Game.start, before its first coin, its first obstacle
\* and the first attack of its enemy: the timers have counted the frames and
\* the enemy has walked; both intervals still have their initial value
AfterQuietFrames(n) ==
    [NewGame(0, Jitter(0)) EXCEPT
        !.isRunning = TRUE,
        !.spawnManager.obstacleTimer = n,
        !.spawnManager.coinTimer = n,
        !.enemies[1].x = @ + n * Px(enemyVelocityX),
        !.log = EmptyLog("scene")]

EarlyScene == AfterQuietFrames(EarlyFrames)

\* The coin pool of a run whose coin interval has come down to `interval`:
\* the youngest coin is of age `age`, the one before it interval + 1 updates
\* older, the one before that interval + 2 more, and so on
DecliningCoins(speed, interval, age) ==
    [ i \in 1..4 |->
        LET younger == 4 - i
            a == age + younger * interval + (younger * (younger + 1)) \div 2
        IN [ kind |-> "Coin", x |-> Px(canvasWidth) - a * speed, y |-> HighCoinY,
             width |-> Px(16), height |-> Px(16), size |-> 16,
             value |-> determineValue(16), speed |-> speed,
             markedForDeletion |-> FALSE ] ]

\* Both intervals are one above their floor and both timers are about to fire
NearFloorScene ==
    LET w == MidRun(0, 5, NewPlayer, <<>>, minObstacleInterval - 1,
                    DecliningCoins(CoinSpeed(0), minCoinInterval + 1, minCoinInterval - 2),
                    minCoinInterval - 3, <<FarEnemy>>)
    IN [w EXCEPT !.spawnManager.obstacleInterval = minObstacleInterval + 1,
                 !.spawnManager.coinInterval = minCoinInterval + 1]

\* One point short of a speed step, a coin about to be collected, and the
\* obstacle timer firing shortly after
SpeedScene ==
    [CollideScene("threshold", [obstacle |-> "none", enemy |-> "far", coin |-> 24])
        EXCEPT !.spawnManager.obstacleTimer = minObstacleInterval - 4]

\* Two points short of the first score that spawns enemies, a medium coin
\* about to be collected
ScoreSpawnScene ==
    LET sc == enemyScorePeriod - 2
        age == CoinAge(CoinSpeed(sc), 2)
    IN MidRun(sc, sc + 2, NewPlayer, <<>>, 5, FloorCoins(CoinSpeed(sc), age, 24),
              (age - 1) % minCoinInterval, <<FarEnemy>>)

\* A Super power-up that has run for timer updates, one point short of a
\* regular threshold, a medium coin about to be collected
SuperScene(timer) ==
    LET sc == superThreshold + coinThreshold - 1
        age == CoinAge(CoinSpeed(sc), 2)
    IN MidRun(sc, sc + 2, AgedPowerUp(TRUE, timer), <<>>, 5,
              FloorCoins(CoinSpeed(sc), age, 24),
              (age - 1) % minCoinInterval, <<FarEnemy>>)

Scenes ==
    { [w |-> SuperScene(timer), ticks |-> SuperTicks, intents |-> 0] :
        timer \in {powerUpDuration \div 2} \cup
                  ((powerUpDuration - 3)..(powerUpDuration - 1)) }
    \cup
    { [w |-> EarlyScene, ticks |-> EarlyTicks, intents |-> 0],
      [w |-> ScoreSpawnScene, ticks |-> ScoreSpawnTicks, intents |-> 0],
      [w |-> EarlyScene, ticks |-> OrderTicks, intents |-> MaxIntents],
      [w |-> NearFloorScene, ticks |-> NearFloorTicks, intents |-> 0],
      [w |-> SpeedScene, ticks |-> SpeedTicks, intents |-> 0] }
    \cup
    { [w |-> NewGame(stored, Jitter(r)), ticks |-> NewTicks, intents |-> MaxIntents] :
        stored \in StoredHighScores, r \in EnemyJitterDraws }
    \cup
    { [w |-> CollideScene(mode, layout), ticks |-> CollideTicks, intents |-> MaxIntents] :
        mode \in Modes, layout \in Layouts }
    \cup
    { [w |-> SpawnScene, ticks |-> SpawnTicks, intents |-> 0],
      [w |-> LeaveScene, ticks |-> LeaveTicks, intents |-> MaxIntents] }

Init ==
    \E s \in Scenes :
        /\ isRunning = s.w.isRunning /\ gameOver = s.w.gameOver
        /\ score = s.w.score /\ highScore = s.w.highScore
        /\ player = s.w.player /\ spawnManager = s.w.spawnManager
        /\ powerUpManager = s.w.powerUpManager /\ enemies = s.w.enemies
        /\ retryTimers = s.w.retryTimers /\ log = s.w.log
        /\ ticksLeft = s.ticks /\ intentsLeft = s.intents

\* Game.start: the click on the start button, which runs the first frame
\* (gameLoop(0) with lastTime = 0, so its elapsed time is 0)
Start ==
    /\ ~isRunning
    /\ ticksLeft > 0
    /\ LET w == [World EXCEPT !.isRunning = TRUE, !.gameOver = FALSE,
                              !.log = EmptyLog("tick")]
       IN \E rnd \in Draws(w) : rnd.deltaTime = 0 /\ SetWorld(gameLoop(w, rnd))
    /\ ticksLeft' = ticksLeft - 1
    /\ UNCHANGED intentsLeft

\* Game.gameLoop as the requestAnimationFrame callback of a running game
Tick ==
    /\ isRunning
    /\ ~gameOver
    /\ ticksLeft > 0
    /\ LET w == [World EXCEPT !.log = EmptyLog("tick")]
       IN \E rnd \in Draws(w) : SetWorld(gameLoop(w, rnd))
    /\ ticksLeft' = ticksLeft - 1
    /\ UNCHANGED intentsLeft

\* Game.gameLoop as the callback of a game that is over: nothing is updated
IdleFrame ==
    /\ isRunning
    /\ gameOver
    /\ SetWorld(gameLoop(World, CHOOSE rnd \in Draws(World) : TRUE))
    /\ UNCHANGED <<ticksLeft, intentsLeft>>

\* keydown Space / ArrowUp, touch on the left half
Jump ==
    /\ isRunning
    /\ intentsLeft > 0
    /\ player' = jump(player)
    /\ intentsLeft' = intentsLeft - 1
    /\ UNCHANGED <<isRunning, gameOver, score, highScore, spawnManager,
                   powerUpManager, enemies, retryTimers, log, ticksLeft>>

\* keydown Shift / ArrowRight, touch on the right half
Attack ==
    /\ isRunning
    /\ intentsLeft > 0
    /\ player' = attack(player)
    /\ intentsLeft' = intentsLeft - 1
    /\ UNCHANGED <<isRunning, gameOver, score, highScore, spawnManager,
                   powerUpManager, enemies, retryTimers, log, ticksLeft>>

\* Game.restart: the restart buttons, or Enter when the game is over
Restart ==
    /\ isRunning
    /\ intentsLeft > 0
    /\ \E r \in EnemyJitterDraws :
          SetWorld(restart([World EXCEPT !.log = EmptyLog("restart")], Jitter(r)))
    /\ intentsLeft' = intentsLeft - 1
    /\ UNCHANGED ticksLeft

Next == Start \/ Tick \/ IdleFrame \/ Jump \/ Attack \/ Restart

Spec == Init /\ [][Next]_vars

(***************************************************************************)
(* The threshold tracker on its own: Game.addScore any number of times,    *)
(* then the evaluation that ends a frame (checkPowerUpAvailability and,    *)
(* when it returns true, activatePowerUp), from the constructor's state.   *)
(* The power-up's expiry stands for the powerUpDuration updates it takes.  *)
(***************************************************************************)
TrackerMaxScore == 110

ScorePoints == {1, 2, 3, 5}

InitTracker ==
    LET w == NewGame(0, Jitter(0))
    IN /\ isRunning = w.isRunning /\ gameOver = w.gameOver
       /\ score = w.score /\ highScore = w.highScore
       /\ player = w.player /\ spawnManager = w.spawnManager
       /\ powerUpManager = w.powerUpManager /\ enemies = w.enemies
       /\ retryTimers = w.retryTimers /\ log = w.log
       /\ ticksLeft = 0 /\ intentsLeft = 0

\* Game.addScore
TrackerAddScore ==
    /\ score < TrackerMaxScore
    /\ \E points \in ScorePoints :
          SetWorld(addScore([World EXCEPT !.log = EmptyLog("addScore")], points))
    /\ UNCHANGED <<ticksLeft, intentsLeft>>

\* Game.gameLoop, the threshold evaluation
TrackerCheck ==
    /\ SetWorld(PowerUpPhase([World EXCEPT !.log = EmptyLog("check")]))
    /\ UNCHANGED <<ticksLeft, intentsLeft>>

\* Player.update, the power-up running out
TrackerExpire ==
    /\ player.hasPowerUp
    /\ player' = deactivatePowerUp(player)
    /\ log' = EmptyLog("expire")
    /\ UNCHANGED <<isRunning, gameOver, score, highScore, spawnManager,
                   powerUpManager, enemies, retryTimers, ticksLeft, intentsLeft>>

NextTracker == TrackerAddScore \/ TrackerCheck \/ TrackerExpire

SpecTracker == InitTracker /\ [][NextTracker]_vars

(***************************************************************************)
(* The PowerUpManager called method by method, as its callers may: the     *)
(* score moves, checkPowerUpAvailability and activatePowerUp are separate  *)
(* calls, and the power-up runs out.  log.before holds the actor and the   *)
(* tracker as the call found them.                                         *)
(***************************************************************************)
ManagerMaxScore == 125

Before(w) == <<[player |-> w.player, powerUpManager |-> w.powerUpManager]>>

\* Game.addScore
ManagerAddScore ==
    /\ score < ManagerMaxScore
    /\ \E points \in ScorePoints :
          SetWorld(addScore([World EXCEPT !.log = EmptyLog("addScore")], points))
    /\ UNCHANGED <<ticksLeft, intentsLeft>>

\* PowerUpManager.checkPowerUpAvailability(game.score), the call alone
ManagerCheck ==
    LET w == [World EXCEPT !.log = [EmptyLog("check") EXCEPT !.before = Before(World)]]
        r == checkPowerUpAvailability(w.powerUpManager, w.score, w.player.hasPowerUp)
    IN /\ SetWorld([w EXCEPT !.powerUpManager = r.pum,
                             !.log.checks =
                                 <<[ from |-> w.powerUpManager.lastCheckedScore,
                                     to |-> w.score,
                                     hasPowerUp |-> w.player.hasPowerUp,
                                     regular |-> r.pum.isPowerUpAvailable,
                                     super |-> r.pum.isSuperPowerUpAvailable,
                                     result |-> r.result ]>>])
       /\ UNCHANGED <<ticksLeft, intentsLeft>>

\* PowerUpManager.activatePowerUp, the call alone
ManagerActivate ==
    /\ SetWorld(activatePowerUp(
           [World EXCEPT !.log = [EmptyLog("activate") EXCEPT !.before = Before(World)]]))
    /\ UNCHANGED <<ticksLeft, intentsLeft>>

\* Player.update, the power-up running out
ManagerExpire ==
    /\ player.hasPowerUp
    /\ player' = deactivatePowerUp(player)
    /\ log' = EmptyLog("expire")
    /\ UNCHANGED <<isRunning, gameOver, score, highScore, spawnManager,
                   powerUpManager, enemies, retryTimers, ticksLeft, intentsLeft>>

NextManager == ManagerAddScore \/ ManagerCheck \/ ManagerActivate \/ ManagerExpire

SpecManager == InitTracker /\ [][NextManager]_vars

(***************************************************************************)
(* An Enemy on its own: update() called again and again on the enemy the   *)
(* constructor of the game spawns, beside an actor that stands still,      *)
(* until the enemy is flagged for removal.                                 *)
(***************************************************************************)
InitEnemy ==
    \E r \in EnemyJitterDraws :
        LET w == NewGame(0, Jitter(r))
        IN /\ isRunning = w.isRunning /\ gameOver = w.gameOver
           /\ score = w.score /\ highScore = w.highScore
           /\ player = w.player /\ spawnManager = w.spawnManager
           /\ powerUpManager = w.powerUpManager /\ enemies = w.enemies
           /\ retryTimers = w.retryTimers /\ log = w.log
           /\ ticksLeft = 0 /\ intentsLeft = 0

\* Enemy.update
EnemyUpdateCall ==
    /\ ~enemies[1].markedForDeletion
    /\ enemies' = UpdateEnemies(enemies)
    /\ log' = EmptyLog("update")
    /\ UNCHANGED <<isRunning, gameOver, score, highScore, player, spawnManager,
                   powerUpManager, retryTimers, ticksLeft, intentsLeft>>

NextEnemy == EnemyUpdateCall

SpecEnemy == InitEnemy /\ [][NextEnemy]_vars

(***************************************************************************)
(* The Player's attack: attack() and update() called in any order and any  *)
(* number of times on a standing actor.  ticksLeft counts down, from       *)
(* attackDuration + attackCooldownDuration at an attack that started, the  *)
(* updates made since; log.evals holds, for the latest                     *)
(* attackDuration + attackCooldownDuration updates, whether the actor was  *)
(* invincible after the update, which is when the collision phase runs.    *)
(***************************************************************************)
\* Player.attack
AttackCall ==
    /\ player' = attack(player)
    /\ ticksLeft' = IF ~player.isAttacking /\ player'.isAttacking
                    THEN playerAttackDuration + playerAttackCooldownDuration
                    ELSE ticksLeft
    /\ log' = [log EXCEPT !.op = "attack"]
    /\ UNCHANGED <<isRunning, gameOver, score, highScore, spawnManager,
                   powerUpManager, enemies, retryTimers, intentsLeft>>

\* Player.update
AttackUpdate ==
    /\ player' = PlayerUpdate(player)
    /\ ticksLeft' = IF ticksLeft > 0 THEN ticksLeft - 1 ELSE 0
    /\ log' = [log EXCEPT
                 !.op = "update",
                 !.evals = LET all == Append(@, isInvincible(player'))
                           IN IF Len(all) > playerAttackDuration + playerAttackCooldownDuration
                              THEN Tail(all) ELSE all]
    /\ UNCHANGED <<isRunning, gameOver, score, highScore, spawnManager,
                   powerUpManager, enemies, retryTimers, intentsLeft>>

NextAttack == AttackCall \/ AttackUpdate

SpecAttack == InitTracker /\ [][NextAttack]_vars

(***************************************************************************)
(* The SpawnManager on its own: update() called again and again on a newly *)
(* constructed scheduler, at score 0 beside an actor that stands still.    *)
(* ticksLeft counts the updates still to make.                             *)
(***************************************************************************)
SpawnerUpdates == 400

\* The draws of one update: every obstacle height class, one shape of coin
SpawnerDraws ==
    { [ obstacleHeight |-> oh, coinSize |-> 0, coinHeight |-> 65, coinInner |-> 0 ] :
        oh \in ObstacleHeightDraws }

InitSpawner ==
    LET w == NewGame(0, Jitter(0))
    IN /\ isRunning = w.isRunning /\ gameOver = w.gameOver
       /\ score = w.score /\ highScore = w.highScore
       /\ player = w.player /\ spawnManager = NewSpawnManager
       /\ powerUpManager = w.powerUpManager /\ enemies = w.enemies
       /\ retryTimers = w.retryTimers /\ log = w.log
       /\ ticksLeft = SpawnerUpdates /\ intentsLeft = 0

\* SpawnManager.update
SpawnerUpdate ==
    /\ ticksLeft > 0
    /\ \E rnd \in (IF WillSpawnObstacle(spawnManager) THEN SpawnerDraws
                   ELSE {CHOOSE d \in SpawnerDraws : TRUE}) :
          spawnManager' = SpawnManagerUpdate(spawnManager, score, rnd, player)
    /\ ticksLeft' = ticksLeft - 1
    /\ log' = EmptyLog("update")
    /\ UNCHANGED <<isRunning, gameOver, score, highScore, player,
                   powerUpManager, enemies, retryTimers, intentsLeft>>

NextSpawner == SpawnerUpdate

SpecSpawner == InitSpawner /\ [][NextSpawner]_vars

(***************************************************************************)
(* The collision tests on their own: Player.collidesWith(object) and       *)
(* Enemy.collidesWith(player) for an object of each kind placed around the *)
(* edges of the actor's rectangle and of its coin hitbox.  log.evals holds *)
(* the arguments and the two results.                                      *)
(***************************************************************************)
\* The actor as the argument of another object's collidesWith
PlayerBox(p) ==
    [ x |-> Px(playerX), y |-> p.y, width |-> Px(playerWidth),
      height |-> Px(playerHeight) ]

\* Offsets, in tenths of a pixel, around an edge and around the edge of the
\* coin hitbox
EdgeOffsets == {-1, 0, 1}

\* The positions of the near edge of an object of extent `size` along an axis
\* on which the actor spans lo..hi
EdgePositions(lo, hi, size) ==
    { lo - size - Px(extendedHitbox) + d : d \in EdgeOffsets }
    \cup { lo - size + d : d \in EdgeOffsets }
    \cup { lo + 10 }
    \cup { hi + d : d \in EdgeOffsets }
    \cup { hi + Px(extendedHitbox) + d : d \in EdgeOffsets }

ProbeKinds == {"Obstacle", "Enemy", "Coin"}
ProbeSizes == {Px(16), Px(obstacleSize)}
ProbeHeights == {playerGroundY, playerGroundY - Px(100)}

\* One pair of calls on a newly constructed game
CollideProbe ==
    /\ log.op = "new"
    /\ \E kind \in ProbeKinds, w \in ProbeSizes, h \in ProbeSizes, py \in ProbeHeights :
         \E x \in EdgePositions(Px(playerX), Px(playerX) + Px(playerWidth), w),
            y \in EdgePositions(py, py + Px(playerHeight), h) :
           LET p == [NewPlayer EXCEPT !.y = py]
               object == [ kind |-> kind, x |-> x, y |-> y, width |-> w, height |-> h ]
           IN /\ player' = p
              /\ log' = [EmptyLog("collidesWith") EXCEPT
                           !.evals = << [ object |-> object, playerY |-> py,
                                          asPlayer |-> collidesWith(p, object),
                                          asEnemy |-> EnemyCollidesWith(object, PlayerBox(p)) ] >>]
              /\ UNCHANGED <<isRunning, gameOver, score, highScore, spawnManager,
                             powerUpManager, enemies, retryTimers, ticksLeft, intentsLeft>>

NextCollide == CollideProbe

SpecCollide == InitTracker /\ [][NextCollide]_vars

(***************************************************************************)
(* The Player called method by method: jump(), attack() and update() in    *)
(* any order on a newly constructed actor, without a power-up or with one  *)
(* just activated.  log.before holds the actor as the call found it.       *)
(***************************************************************************)
PlayerTicks == 22
PlayerCalls == 4

PlayerStarts ==
    {NewPlayer, activatePowerUpOn(NewPlayer, FALSE), activatePowerUpOn(NewPlayer, TRUE)}

InitPlayer ==
    LET w == NewGame(0, Jitter(0))
    IN /\ isRunning = w.isRunning /\ gameOver = w.gameOver
       /\ score = w.score /\ highScore = w.highScore
       /\ player \in PlayerStarts /\ spawnManager = w.spawnManager
       /\ powerUpManager = w.powerUpManager /\ enemies = w.enemies
       /\ retryTimers = w.retryTimers /\ log = w.log
       /\ ticksLeft = PlayerTicks /\ intentsLeft = PlayerCalls

PlayerCall(op, p) ==
    /\ player' = p
    /\ log' = [EmptyLog(op) EXCEPT !.before = Before(World)]
    /\ UNCHANGED <<isRunning, gameOver, score, highScore, spawnManager,
                   powerUpManager, enemies, retryTimers>>

\* Player.jump
PlayerJump ==
    /\ intentsLeft > 0
    /\ PlayerCall("jump", jump(player))
    /\ intentsLeft' = intentsLeft - 1
    /\ UNCHANGED ticksLeft

\* Player.attack
PlayerAttack ==
    /\ intentsLeft > 0
    /\ PlayerCall("attack", attack(player))
    /\ intentsLeft' = intentsLeft - 1
    /\ UNCHANGED ticksLeft

\* Player.update
PlayerTick ==
    /\ ticksLeft > 0
    /\ PlayerCall("update", PlayerUpdate(player))
    /\ ticksLeft' = ticksLeft - 1
    /\ UNCHANGED intentsLeft

NextPlayer == PlayerJump \/ PlayerAttack \/ PlayerTick

SpecPlayer == InitPlayer /\ [][NextPlayer]_vars

(***************************************************************************)
(* The Player over whole jumps and attacks: jump(), attack() and update()  *)
(* called in any order and any number of times, from the constructor's     *)
(* state and from a Super power-up that has SuperLeft updates left to run. *)
(* log.before holds the actor as the call found it.                        *)
(***************************************************************************)
SuperLeft == 6

ActorStarts == {NewPlayer, AgedPowerUp(TRUE, powerUpDuration - SuperLeft)}

InitActor ==
    LET w == NewGame(0, Jitter(0))
    IN /\ isRunning = w.isRunning /\ gameOver = w.gameOver
       /\ score = w.score /\ highScore = w.highScore
       /\ player \in ActorStarts /\ spawnManager = w.spawnManager
       /\ powerUpManager = w.powerUpManager /\ enemies = w.enemies
       /\ retryTimers = w.retryTimers /\ log = w.log
       /\ ticksLeft = 0 /\ intentsLeft = 0

\* Player.jump
ActorJump ==
    /\ PlayerCall("jump", jump(player))
    /\ UNCHANGED <<ticksLeft, intentsLeft>>

\* Player.attack
ActorAttack ==
    /\ PlayerCall("attack", attack(player))
    /\ UNCHANGED <<ticksLeft, intentsLeft>>

\* Player.update
ActorUpdate ==
    /\ PlayerCall("update", PlayerUpdate(player))
    /\ UNCHANGED <<ticksLeft, intentsLeft>>

NextActor == ActorJump \/ ActorAttack \/ ActorUpdate

SpecActor == InitActor /\ [][NextActor]_vars

\* Jumps and updates alone, with the frames going on: requestAnimationFrame
\* calls gameLoop again after every frame of a running game, and each frame
\* updates the actor; nothing makes a jump intent arrive
NextLanding == ActorJump \/ ActorUpdate

SpecLanding == InitActor /\ [][NextLanding]_vars /\ WF_vars(ActorUpdate)

(***************************************************************************)
(* The Player's power-up: activatePowerUp(isSuper) and update() called in  *)
(* any order on a standing actor.  ticksLeft counts down, from             *)
(* powerUpDuration at an activation, the updates made since the latest     *)
(* activation; log.before holds the actor as the call found it.            *)
(***************************************************************************)
\* Player.activatePowerUp(isSuper)
PowerActivate ==
    /\ \E isSuper \in BOOLEAN :
          PlayerCall("activatePowerUp", activatePowerUpOn(player, isSuper))
    /\ ticksLeft' = powerUpDuration
    /\ UNCHANGED intentsLeft

\* Player.update
PowerUpdate ==
    /\ PlayerCall("update", PlayerUpdate(player))
    /\ ticksLeft' = IF ticksLeft > 0 THEN ticksLeft - 1 ELSE 0
    /\ UNCHANGED intentsLeft

NextPower == PowerActivate \/ PowerUpdate

SpecPower == InitTracker /\ [][NextPower]_vars

(***************************************************************************)
(* Properties.  They read the log of the last frame and decide overlap,    *)
(* protection and point values on their own.                               *)
(***************************************************************************)
\* The last step was a frame that ran its phases
FrameRan == log.op = "tick" /\ Len(log.atCollision) = 1

\* What the collision phase of that frame found
Found == log.atCollision[1]

Range(seq) == { seq[i] : i \in 1..Len(seq) }

Protected(p) == p.hasPowerUp \/ p.attackInvincibilityTimer > 0

\* The actor's rectangle at height y meets the rectangle of o
BodyOverlap(y, o) ==
    /\ Px(playerX) < o.x + o.width
    /\ o.x < Px(playerX) + Px(playerWidth)
    /\ y < o.y + o.height
    /\ o.y < y + Px(playerHeight)

\* The actor's coin hitbox at height y meets coin c
CoinOverlap(y, c) ==
    /\ Px(playerX) < c.x + c.width + Px(extendedHitbox)
    /\ c.x < Px(playerX) + Px(playerWidth) + Px(extendedHitbox)
    /\ y < c.y + c.height + Px(extendedHitbox)
    /\ c.y < y + Px(playerHeight) + Px(extendedHitbox)

SizeValue(size) == IF size = 16 THEN 1 ELSE IF size = 24 THEN 2 ELSE 3

EvalsOf(kind) == SelectSeq(log.evals, LAMBDA e : e.object.kind = kind)

\* C1: in every reachable state the obstacle pool holds at most one obstacle,
\* and a frame adds an obstacle to the pool only if the pool was empty when the
\* frame began.
C1_AtMostOneObstacle ==
    /\ [](Len(spawnManager.obstacles) <= 1)
    /\ [][ (/\ ticksLeft' < ticksLeft
            /\ \E i \in 1..Len(spawnManager'.obstacles) :
                 \A j \in 1..Len(spawnManager.obstacles) :
                    spawnManager'.obstacles[i].x
                        # spawnManager.obstacles[j].x - spawnManager.obstacles[j].speed)
           => Len(spawnManager.obstacles) = 0 ]_vars

\* An obstacle created in the last frame (it has moved once from the right edge)
C1_ObstacleCreated ==
    /\ FrameRan
    /\ Len(spawnManager.obstacles) = 1
    /\ spawnManager.obstacles[1].x = Px(canvasWidth) - spawnManager.obstacles[1].speed

\* C2: a frame sets the game-over flag if and only if its collision phase finds
\* the actor's rectangle overlapping an obstacle or an enemy of the pools while
\* neither hasPowerUp nor attackInvincibilityTimer > 0 holds.
C2_GameOverIffUnprotectedHit ==
    FrameRan =>
        (gameOver <=>
            /\ ~Protected(Found.player)
            /\ \E object \in Range(Found.obstacles) \cup Range(Found.enemies) :
                   BodyOverlap(Found.player.y, object))

\* A frame that ended the run on an enemy
C2_EndedOnEnemy ==
    /\ FrameRan
    /\ gameOver
    /\ \E e \in Range(Found.enemies) : BodyOverlap(Found.player.y, e)

\* C3: when an unprotected actor overlaps an obstacle, the flag becomes true
\* and no further obstacle and no enemy is evaluated in that frame.
C3_NothingEvaluatedAfterObstacleHit ==
    FrameRan =>
        \A i \in 1..Len(log.evals) :
            (/\ log.evals[i].object.kind = "Obstacle"
             /\ BodyOverlap(log.evals[i].playerY, log.evals[i].object)
             /\ ~log.evals[i].hasPowerUp
             /\ log.evals[i].attackInvincibilityTimer = 0)
            => /\ gameOver
               /\ \A j \in (i + 1)..Len(log.evals) :
                      log.evals[j].object.kind \notin {"Obstacle", "Enemy"}

\* C4: every coin the coin hitbox overlaps in a collision phase is flagged and
\* adds the value of its size class (16: 1, 24: 2, 32: 3) to the score,
\* protected actor or not; every coin of the pool is evaluated, and no coin
\* evaluation changes the game-over flag.
C4_CoinsAlwaysCollected ==
    FrameRan =>
        LET coins == Found.coins
            ce == EvalsOf("Coin")
        IN /\ Len(ce) = Len(coins)
           /\ Len(spawnManager.coins) = Len(coins)
           /\ \A i \in 1..Len(coins) :
                /\ ce[i].object = coins[i]
                /\ coins[i].size \in {16, 24, 32}
                /\ ce[i].gameOverAfter = ce[i].gameOverBefore
                /\ IF CoinOverlap(Found.player.y, coins[i])
                   THEN /\ ce[i].scoreAfter = ce[i].scoreBefore + SizeValue(coins[i].size)
                        /\ spawnManager.coins[i].markedForDeletion
                   ELSE /\ ce[i].scoreAfter = ce[i].scoreBefore
                        /\ ~spawnManager.coins[i].markedForDeletion

\* A coin collected by a protected actor
C4_CollectedWhileProtected ==
    /\ FrameRan
    /\ Protected(Found.player)
    /\ \E i \in 1..Len(Found.coins) :
          /\ CoinOverlap(Found.player.y, Found.coins[i])
          /\ spawnManager.coins[i].markedForDeletion

\* C5: an overlap of a protected actor with an obstacle adds 2 when
\* attackInvincibilityTimer > 0 and 1 when only the power-up protects; with an
\* enemy it adds 5 and 2.
C5_AttackWindowAwards ==
    \A i \in 1..Len(log.evals) :
        LET e == log.evals[i]
            gain == e.scoreAfter - e.scoreBefore
        IN (e.object.kind \in {"Obstacle", "Enemy"}
              /\ BodyOverlap(e.playerY, e.object)
              /\ (e.hasPowerUp \/ e.attackInvincibilityTimer > 0))
           => IF e.attackInvincibilityTimer > 0
              THEN gain = (IF e.object.kind = "Obstacle" THEN 2 ELSE 5)
              ELSE gain = (IF e.object.kind = "Obstacle" THEN 1 ELSE 2)

\* The gains of the evaluations of a frame add up from the score the frame
\* began with to the score it left
EvalChain ==
    /\ \A i \in 1..Len(log.evals) :
          log.evals[i].scoreAfter - log.evals[i].scoreBefore \in {0, 1, 2, 3, 5}
    /\ \A i \in 1..(Len(log.evals) - 1) :
          log.evals[i + 1].scoreBefore = log.evals[i].scoreAfter
    /\ FrameRan /\ Len(log.evals) > 0 =>
          /\ log.evals[1].scoreBefore = Found.score
          /\ log.evals[Len(log.evals)].scoreAfter = score
    /\ FrameRan /\ Len(log.evals) = 0 => score = Found.score

\* C6: the score is a natural number; no step other than a restart lowers it;
\* a frame changes it only through the gains of its collision evaluations,
\* each of which is 0, 1, 2, 3 or 5.
C6_ScoreOnlyGrows ==
    /\ [](score \in Nat /\ EvalChain)
    /\ [][ /\ (log'.op # "restart" => score' >= score)
           /\ (ticksLeft' < ticksLeft => log'.atCollision[1].score = score)
           /\ (ticksLeft' = ticksLeft /\ log'.op # "restart" => score' = score) ]_vars

\* A frame in which an evaluation added 5 and another added a coin's value
C6_ScoreGrew ==
    /\ FrameRan
    /\ \E i, j \in 1..Len(log.evals) :
          /\ log.evals[i].scoreAfter = log.evals[i].scoreBefore + 5
          /\ log.evals[j].object.kind = "Coin"
          /\ log.evals[j].scoreAfter > log.evals[j].scoreBefore

\* C7: the best score is at least the score in every state and after every
\* evaluation that changed the score, where it is the larger of the former
\* best and the new score; no step lowers the best score, a restart included.
C7_BestScoreKept ==
    /\ [](/\ highScore >= score
          /\ \A i \in 1..Len(log.evals) :
                LET e == log.evals[i]
                IN e.highScoreAfter =
                      (IF e.scoreAfter > e.highScoreBefore THEN e.scoreAfter
                       ELSE e.highScoreBefore))
    /\ [][highScore' >= highScore]_vars

\* A restart after a run that raised the best score
C7_RestartKeepsRaisedBest ==
    /\ log.op = "restart"
    /\ score = 0
    /\ highScore = ScoreIn("regular") + 3

\* C8: the enemy pool is never empty: not after construction, not after a
\* restart (one enemy each), not at the start of a collision phase; when the
\* update found the pool empty, exactly one enemy was spawned before the
\* collision phase.
C8_EnemyPoolNeverEmpty ==
    /\ Len(enemies) >= 1
    /\ log.op \in {"new", "restart"} => Len(enemies) = 1
    /\ FrameRan => Len(Found.enemies) >= 1
    /\ FrameRan /\ log.emptied => Len(Found.enemies) = 1 /\ Len(log.spawns) = 1

\* A frame whose update found the pool empty
C8_PoolRefilled == FrameRan /\ log.emptied /\ Len(Found.enemies) = 1

C10_OneCrossingPerEvaluation ==
    log.op = "check" =>
        /\ Len(log.checks) = 1
        /\ LET c == log.checks[1]
           IN /\ c.to = c.from => log.activations = 0
              /\ c.to > c.from =>
                   /\ ~(c.regular /\ c.super)
                   /\ log.activations <= 1
                   /\ (c.to \div 100 > c.from \div 100) =>
                         /\ c.super
                         /\ log.activations = 1
                         /\ player.hasPowerUp /\ player.isSuperPowerUp
                   /\ log.activations = 1 => c.to \div 20 > c.from \div 20
                   /\ log.activations = 1 => player.hasPowerUp
                   /\ ~powerUpManager.isPowerUpAvailable
                   /\ ~powerUpManager.isSuperPowerUpAvailable

\* The score moved from 15 to 105 between two evaluations
C10_JumpOverFiveThresholds ==
    /\ log.op = "check"
    /\ log.checks[1].from = 15
    /\ log.checks[1].to = 105
    /\ log.activations = 1
    /\ player.isSuperPowerUp

(***************************************************************************)
(* The PowerUpManager's methods, under SpecManager.  TheCheck is the call  *)
(* of checkPowerUpAvailability that ran last, Found1 what it found.        *)
(***************************************************************************)
TheCheck == log.checks[1]
Found1 == log.before[1]
SuperCrossed(c) == c.to \div superThreshold > c.from \div superThreshold
RegularCrossed(c) == c.to \div coinThreshold > c.from \div coinThreshold

\* C11: an evaluation that finds floor(score/100) above its value at the last
\* evaluation returns true and leaves the super power-up available and the
\* regular one not available, whatever power-up the actor holds.
C11_SuperCrossingWins ==
    (log.op = "check" /\ SuperCrossed(TheCheck)) =>
        /\ TheCheck.result
        /\ powerUpManager.isSuperPowerUpAvailable
        /\ ~powerUpManager.isPowerUpAvailable
        /\ powerUpManager.lastCheckedScore = score

C11_CrossedWhileActive ==
    /\ log.op = "check"
    /\ TheCheck.from = 95 /\ TheCheck.to = 100
    /\ TheCheck.hasPowerUp /\ player.hasPowerUp
    /\ powerUpManager.isSuperPowerUpAvailable

\* C12: an evaluation marks the regular power-up available exactly when
\* floor(score/20) went up, no super threshold was crossed, the score is not a
\* multiple of 100 and the actor holds no power-up; 0 to 20 without a
\* power-up marks the regular one and not the super one; a regular crossing
\* made while a power-up is active is consumed without marking anything.
C12_RegularIffCrossedIdle ==
    log.op = "check" =>
        /\ (TheCheck.result /\ powerUpManager.isPowerUpAvailable) <=>
              (/\ RegularCrossed(TheCheck)
               /\ ~SuperCrossed(TheCheck)
               /\ TheCheck.to % superThreshold # 0
               /\ ~TheCheck.hasPowerUp)
        /\ (TheCheck.from = 0 /\ TheCheck.to = 20 /\ ~TheCheck.hasPowerUp) =>
              (/\ powerUpManager.isPowerUpAvailable
               /\ ~powerUpManager.isSuperPowerUpAvailable)
        /\ (RegularCrossed(TheCheck) /\ ~SuperCrossed(TheCheck) /\ TheCheck.hasPowerUp) =>
              (/\ ~TheCheck.result
               /\ powerUpManager = [Found1.powerUpManager EXCEPT
                                        !.lastCheckedScore = TheCheck.to])

C12_CrossingLostWhileActive ==
    /\ log.op = "check"
    /\ TheCheck.from < 40 /\ TheCheck.to >= 40 /\ TheCheck.to < 60
    /\ TheCheck.hasPowerUp
    /\ ~powerUpManager.isPowerUpAvailable
    /\ powerUpManager.lastCheckedScore = TheCheck.to

\* C13: an evaluation of the score already evaluated returns false and changes
\* neither the tracker nor the actor; so does the second of two evaluations
\* made in a row.
C13_SameScoreChangesNothing ==
    [][ (log'.op = "check" /\ (score = powerUpManager.lastCheckedScore \/ log.op = "check")) =>
            /\ ~log'.checks[1].result
            /\ powerUpManager' = powerUpManager
            /\ player' = player
            /\ score' = score ]_vars

C13_EvaluatedTwice ==
    /\ log.op = "check"
    /\ TheCheck.from = TheCheck.to /\ TheCheck.to = 20
    /\ ~TheCheck.result
    /\ Found1.powerUpManager.isPowerUpAvailable
    /\ powerUpManager = Found1.powerUpManager

\* C14: activatePowerUp applies the super power-up when it is available, else
\* the regular one when it is available, clears the flag it consumed and no
\* other and returns true; with no flag set it returns false and changes
\* nothing.  The activatePowerUp that follows an evaluation that returned
\* true returns true.
C14_ActivationConsumesOneFlag ==
    [][ log'.op = "activate" =>
          /\ IF powerUpManager.isSuperPowerUpAvailable
             THEN /\ log'.activations = 1
                  /\ player'.hasPowerUp /\ player'.isSuperPowerUp
                  /\ player'.powerUpTimer = 0
                  /\ powerUpManager' =
                        [powerUpManager EXCEPT !.isSuperPowerUpAvailable = FALSE]
             ELSE IF powerUpManager.isPowerUpAvailable
             THEN /\ log'.activations = 1
                  /\ player'.hasPowerUp /\ ~player'.isSuperPowerUp
                  /\ player'.powerUpTimer = 0
                  /\ powerUpManager' =
                        [powerUpManager EXCEPT !.isPowerUpAvailable = FALSE]
             ELSE /\ log'.activations = 0
                  /\ player' = player
                  /\ powerUpManager' = powerUpManager
          /\ (log.op = "check" /\ log.checks[1].result) => log'.activations = 1 ]_vars

C14_SuperTakenRegularKept ==
    /\ log.op = "activate"
    /\ Found1.powerUpManager.isSuperPowerUpAvailable
    /\ Found1.powerUpManager.isPowerUpAvailable
    /\ log.activations = 1
    /\ player.isSuperPowerUp
    /\ powerUpManager.isPowerUpAvailable
    /\ ~powerUpManager.isSuperPowerUpAvailable

(***************************************************************************)
(* The Player's methods, under SpecPlayer.  Found1.player is the actor as  *)
(* the call that ran last found it.                                        *)
(***************************************************************************)
Airborne(p) == p.isJumping

\* C15: jump() on a grounded actor makes it airborne with velocity jumpForce;
\* jump() in mid-air before the double jump sets the velocity to 0.8 times
\* jumpForce and hasDoubleJumped; jump() in mid-air after the double jump and
\* without the super power-up changes nothing of the actor.
C15_ThirdJumpIgnored ==
    [][ log'.op = "jump" =>
          IF ~Airborne(player)
          THEN player' = [player EXCEPT !.isJumping = TRUE,
                                        !.velocityY = Px(jumpForce),
                                        !.canDoubleJump = TRUE]
          ELSE IF ~player.hasDoubleJumped
          THEN /\ player'.velocityY = (Px(jumpForce) * 8) \div 10
               /\ player'.hasDoubleJumped
               /\ Airborne(player') /\ player'.y = player.y
          ELSE ~player.isSuperPowerUp => player' = player ]_vars

C15_ThirdJumpMade ==
    /\ log.op = "jump"
    /\ Airborne(Found1.player) /\ Found1.player.hasDoubleJumped
    /\ ~Found1.player.isSuperPowerUp
    /\ Found1.player.velocityY > (Px(jumpForce) * 7) \div 10
    /\ player = Found1.player

\* C16: with the super power-up active, jump() on the ground or before the
\* double jump does what it does without the power-up; once the double jump
\* is used, every jump() in mid-air sets the velocity to 0.7 times jumpForce
\* and nothing else, as often as it is called.
C16_SuperJumpOnlyAfterDouble ==
    [][ (log'.op = "jump" /\ player.isSuperPowerUp) =>
          IF ~Airborne(player)
          THEN player' = [player EXCEPT !.isJumping = TRUE,
                                        !.velocityY = Px(jumpForce),
                                        !.canDoubleJump = TRUE]
          ELSE IF ~player.hasDoubleJumped
          THEN player' = [player EXCEPT !.velocityY = (Px(jumpForce) * 8) \div 10,
                                        !.hasDoubleJumped = TRUE,
                                        !.canDoubleJump = FALSE]
          ELSE player' = [player EXCEPT !.velocityY = (Px(jumpForce) * 7) \div 10] ]_vars

C16_SuperJumpRepeated ==
    /\ log.op = "jump"
    /\ Found1.player.isSuperPowerUp
    /\ Airborne(Found1.player) /\ Found1.player.hasDoubleJumped
    /\ Found1.player.velocityY > (Px(jumpForce) * 7) \div 10
    /\ player.velocityY = (Px(jumpForce) * 7) \div 10
    /\ intentsLeft = 0

\* C17: attack() during an attack or during the cooldown changes no field of
\* the actor.
C17_AttackIgnoredWhenBusy ==
    [][ (log'.op = "attack" /\ (player.isAttacking \/ player.attackCooldown > 0)) =>
            player' = player ]_vars

C17_AttackDuringAttack ==
    /\ log.op = "attack"
    /\ Found1.player.isAttacking /\ Found1.player.attackTimer > 0
    /\ Found1.player.attackInvincibilityTimer > 0
    /\ player = Found1.player

\* C18: the first update after a successful attack() leaves
\* attackInvincibilityTimer above 0; the timer is 0 from the 15th update of
\* the attack on while the attack lasts until its 20th update, and it is
\* never above 0 outside an attack.
C18_InvincibilityShorterThanAttack ==
    /\ (log.op = "update" /\ Found1.player.isAttacking /\ Found1.player.attackTimer = 0) =>
          (player.isAttacking /\ player.attackInvincibilityTimer > 0)
    /\ (player.isAttacking /\ player.attackTimer >= 1) =>
          /\ player.attackTimer < playerAttackDuration
          /\ player.attackInvincibilityTimer =
                IF player.attackTimer < attackInvincibilityDuration
                THEN attackInvincibilityDuration - player.attackTimer ELSE 0
    /\ player.attackInvincibilityTimer > 0 => player.isAttacking
    /\ attackInvincibilityDuration < playerAttackDuration

C18_AttackingUnprotected ==
    /\ player.isAttacking
    /\ player.attackTimer = playerAttackDuration - 1
    /\ player.attackInvincibilityTimer = 0

(***************************************************************************)
(* The SpawnManager within the game, under Spec.                           *)
(***************************************************************************)
\* An obstacle or coin created by the update that just ran: it has moved once
\* from the right edge
JustCreated(object) == object.x = Px(canvasWidth) - object.speed

FrameStep == ticksLeft' < ticksLeft

\* C19: the obstacle interval always lies in 60..100 and the coin interval in
\* 40..80; between two restarts neither ever goes up; a frame that creates an
\* obstacle lowers the obstacle interval by exactly 1 unless it is 60 already,
\* a frame that creates a coin lowers the coin interval by exactly 1 unless it
\* is 40 already, and a frame that creates none leaves the interval alone.
C19_IntervalsStepDownToFloor ==
    /\ [](/\ spawnManager.obstacleInterval \in minObstacleInterval..initialObstacleInterval
          /\ spawnManager.coinInterval \in minCoinInterval..initialCoinInterval)
    /\ [][ log'.op # "restart" =>
            /\ spawnManager'.obstacleInterval <= spawnManager.obstacleInterval
            /\ spawnManager'.coinInterval <= spawnManager.coinInterval
            /\ FrameStep =>
                 /\ spawnManager'.obstacleInterval =
                       IF (\E o \in Range(spawnManager'.obstacles) : JustCreated(o))
                          /\ spawnManager.obstacleInterval > minObstacleInterval
                       THEN spawnManager.obstacleInterval - 1
                       ELSE spawnManager.obstacleInterval
                 /\ spawnManager'.coinInterval =
                       IF (\E c \in Range(spawnManager'.coins) : JustCreated(c))
                          /\ spawnManager.coinInterval > minCoinInterval
                       THEN spawnManager.coinInterval - 1
                       ELSE spawnManager.coinInterval ]_vars

\* The first obstacle of a run has just been created, after its first coin
C19_FirstObstacleLoweredInterval ==
    /\ FrameRan
    /\ \E o \in Range(spawnManager.obstacles) : JustCreated(o)
    /\ spawnManager.obstacleInterval = initialObstacleInterval - 1
    /\ spawnManager.coinInterval = initialCoinInterval - 1

Speeds(seq) == [i \in 1..Len(seq) |-> seq[i].speed]

NotJustCreated(object) == ~JustCreated(object)

RECURSIVE IsSubseq(_, _)
IsSubseq(a, b) ==
    IF Len(a) = 0 THEN TRUE
    ELSE IF Len(b) = 0 THEN FALSE
    ELSE IF Head(a) = Head(b) THEN IsSubseq(Tail(a), Tail(b))
    ELSE IsSubseq(a, Tail(b))

\* C20: an obstacle created in a frame has speed
\* baseSpeed * (1 + floor(score / 10) * 0.1) for the score the frame began
\* with, a coin created in it has eight tenths of that, and the obstacles and
\* coins that were live before the frame keep the speed they had.
C20_SpeedFixedAtCreation ==
    [][ FrameStep =>
          LET full == baseSpeed * (Scale + (score \div 10))
          IN /\ \A o \in Range(spawnManager'.obstacles) :
                   IF JustCreated(o) THEN o.speed = full
                   ELSE \E b \in Range(spawnManager.obstacles) :
                           b.speed = o.speed /\ b.x - b.speed = o.x
             /\ \A c \in Range(spawnManager'.coins) :
                   JustCreated(c) => 10 * c.speed = 8 * full
             /\ IsSubseq(Speeds(SelectSeq(spawnManager'.coins, NotJustCreated)),
                         Speeds(spawnManager.coins)) ]_vars

\* An obstacle created at the speed of score 20 or more while a coin created
\* at the speed of score 10..19 is still live
C20_FasterObstacleBesideSlowerCoin ==
    /\ FrameRan
    /\ Found.score >= 20
    /\ \E o \in Range(spawnManager.obstacles) :
          JustCreated(o) /\ o.speed = baseSpeed * (Scale + 2)
    /\ \E c \in Range(spawnManager.coins) :
          ~JustCreated(c) /\ 10 * c.speed = 8 * baseSpeed * (Scale + 1)

(***************************************************************************)
(* The Game's handlers, under Spec.                                        *)
(***************************************************************************)
\* A step of Game.restart that follows a frame (restart records itself in log)
RestartStep == log.op # "restart" /\ log'.op = "restart"

\* What restart() resets apart from the threshold tracker's last checked score
RestartedButTracker ==
    /\ score' = 0
    /\ ~gameOver'
    /\ spawnManager'.obstacles = <<>> /\ spawnManager'.coins = <<>>
    /\ spawnManager'.obstacleTimer = 0 /\ spawnManager'.coinTimer = 0
    /\ spawnManager'.obstacleInterval = initialObstacleInterval
    /\ spawnManager'.coinInterval = initialCoinInterval
    /\ player' = NewPlayer
    /\ ~player'.isJumping /\ ~player'.hasPowerUp /\ ~player'.isAttacking
    /\ player'.attackCooldown = 0
    /\ ~powerUpManager'.isPowerUpAvailable
    /\ ~powerUpManager'.isSuperPowerUpAvailable
    /\ Len(enemies') = 1

\* C21: after restart() the score is 0, the game-over flag false, both pools
\* empty, both spawn timers 0, the spawn intervals 100 and 80, the actor newly
\* constructed, both availability flags false, the tracker's last checked
\* score 0 and the enemy pool of size one.
C21_RestartResetsEverything ==
    [][ RestartStep =>
          (RestartedButTracker /\ powerUpManager'.lastCheckedScore = 0) ]_vars

\* The x and y of the entities of a pool, in order
Positions(seq) == [i \in 1..Len(seq) |-> <<seq[i].x, seq[i].y>>]

\* C22: a frame whose elapsed time is zero or negative (the elapsed times out
\* of the range of a frame that the model draws) leaves the position of the
\* actor and of every obstacle, coin and enemy as it was.
C22_NoElapsedTimeNoMovement ==
    [][ (FrameStep /\ log'.deltaTime <= 0) =>
          /\ player'.y = player.y
          /\ Positions(spawnManager'.obstacles) = Positions(spawnManager.obstacles)
          /\ Positions(spawnManager'.coins) = Positions(spawnManager.coins)
          /\ Positions(enemies') = Positions(enemies) ]_vars

\* The heights Coin's constructor can give a coin of that size when the actor
\* is at height y
CoinHeightsAt(y, size) ==
    LET groundPosition == Px(canvasHeight - 20)
    IN {groundPosition - Px(30), y + (Px(playerHeight) \div 2) - (Px(size) \div 2)}
       \cup { groundPosition - Px(80) - ((inner * Px(40)) \div 100) : inner \in 0..99 }
       \cup { groundPosition - Px(120) - ((inner * Px(40)) \div 100) : inner \in 0..99 }
       \cup { groundPosition - Px(180) - ((inner * Px(30)) \div 100) : inner \in 0..99 }

KindRank(kind) == IF kind = "Obstacle" THEN 1 ELSE IF kind = "Enemy" THEN 2 ELSE 3

\* C23: in every frame the coins and obstacles are created and moved before
\* the actor is updated (a coin placed at the actor's height is placed at the
\* height the actor had when the frame began), the collision phase evaluates
\* obstacles, then enemies, then coins, and the threshold evaluation reads the
\* score the collision phase left.
C23_EntitiesThenActorThenCollisions ==
    /\ [](FrameRan =>
            /\ \A i, j \in 1..Len(log.evals) :
                  i < j => KindRank(log.evals[i].object.kind)
                             <= KindRank(log.evals[j].object.kind)
            /\ Len(log.checks) = 1
            /\ log.checks[1].to = score)
    /\ [][ FrameStep =>
            \A c \in Range(spawnManager'.coins) :
               JustCreated(c) => c.y \in CoinHeightsAt(player.y, c.size) ]_vars

(***************************************************************************)
(* The collision tests, under SpecCollide.  TheProbe is the pair of calls  *)
(* that ran last.                                                          *)
(***************************************************************************)
TheProbe == log.evals[1]

Least(a, b) == IF a <= b THEN a ELSE b
Greatest(a, b) == IF a >= b THEN a ELSE b

\* The rectangles (x, y, w, h) and (u, v, s, t) share a region of positive
\* width and height
Intersect(x, y, w, h, u, v, s, t) ==
    /\ Least(x + w, u + s) - Greatest(x, u) > 0
    /\ Least(y + h, v + t) - Greatest(y, v) > 0

\* The object of the probe meets the actor's rectangle grown by margin on all
\* four sides
MeetsActorGrownBy(margin) ==
    Intersect(Px(playerX) - margin, TheProbe.playerY - margin,
              Px(playerWidth) + 2 * margin, Px(playerHeight) + 2 * margin,
              TheProbe.object.x, TheProbe.object.y,
              TheProbe.object.width, TheProbe.object.height)

\* C24: Player.collidesWith(coin) holds exactly when the coin meets the
\* actor's rectangle grown by 10 on all four sides, so it holds whenever the
\* plain overlap holds; for an obstacle or an enemy the test is the plain
\* overlap, without the margin.
C24_CoinHitboxGrownByTen ==
    log.op = "collidesWith" =>
        IF TheProbe.object.kind = "Coin"
        THEN /\ TheProbe.asPlayer <=> MeetsActorGrownBy(Px(10))
             /\ MeetsActorGrownBy(0) => TheProbe.asPlayer
        ELSE TheProbe.asPlayer <=> MeetsActorGrownBy(0)

\* A coin within the margin but clear of the actor's rectangle is collected
C24_CoinCaughtInMargin ==
    /\ log.op = "collidesWith"
    /\ TheProbe.object.kind = "Coin"
    /\ TheProbe.asPlayer
    /\ ~MeetsActorGrownBy(0)
    /\ TheProbe.object.x = Px(playerX) + Px(playerWidth) + Px(10) - 1

\* C25: for an obstacle or an enemy Player.collidesWith holds exactly when the
\* rectangles share a region of positive width and height (sharing an edge is
\* no collision), and Enemy.collidesWith(player) gives the same result.
C25_StrictAndSymmetric ==
    (log.op = "collidesWith" /\ TheProbe.object.kind # "Coin") =>
        /\ TheProbe.asPlayer <=> MeetsActorGrownBy(0)
        /\ TheProbe.asEnemy = TheProbe.asPlayer
        /\ (\/ TheProbe.object.x = Px(playerX) + Px(playerWidth)
            \/ TheProbe.object.x + TheProbe.object.width = Px(playerX)
            \/ TheProbe.object.y = TheProbe.playerY + Px(playerHeight)
            \/ TheProbe.object.y + TheProbe.object.height = TheProbe.playerY)
              => ~TheProbe.asPlayer

\* An enemy whose left edge is the actor's right edge, level with the actor
C25_TouchingIsNoCollision ==
    /\ log.op = "collidesWith"
    /\ TheProbe.object.kind = "Enemy"
    /\ TheProbe.object.x = Px(playerX) + Px(playerWidth)
    /\ TheProbe.object.y = TheProbe.playerY + 10
    /\ ~TheProbe.asPlayer /\ ~TheProbe.asEnemy

\* After the frame that set the game-over flag, nothing but restart() changes
\* the score, the best score, the pools or the flag
FrozenAfterGameOver ==
    (gameOver /\ log'.op # "restart") =>
        /\ gameOver'
        /\ score' = score /\ highScore' = highScore
        /\ spawnManager' = spawnManager /\ enemies' = enemies

\* C26: once a frame has set the game-over flag, the rest of that frame
\* changes neither the score, the best score nor a pool, and until restart()
\* they and the flag stay as they are.
C26_GameOverIsTerminal ==
    /\ [](FrameRan =>
            /\ \A i \in 1..Len(log.evals) :
                  log.evals[i].gameOverBefore =>
                     /\ log.evals[i].scoreAfter = log.evals[i].scoreBefore
                     /\ log.evals[i].highScoreAfter = log.evals[i].highScoreBefore
            /\ gameOver =>
                  /\ spawnManager.obstacles = Found.obstacles
                  /\ spawnManager.coins = Found.coins
                  /\ enemies = Found.enemies)
    /\ [][FrozenAfterGameOver]_vars

\* C27: the enemy pool never holds more than 3 enemies, a frame calls
\* spawnEnemy at most once, and no deferred retry of a spawn is ever pending.
C27_AtMostThreeEnemies ==
    /\ Len(enemies) <= maxEnemies
    /\ retryTimers = 0
    /\ FrameRan => Len(log.spawns) <= 1

\* The pool was filled to three by score-triggered spawns and the frame that
\* found it full at the same score spawned nothing
C27_FullPoolNotGrown ==
    /\ FrameRan
    /\ Found.score = enemyScorePeriod
    /\ Len(enemies) = maxEnemies
    /\ Len(log.spawns) = 0

(***************************************************************************)
(* The SpawnManager's update, under SpecSpawner.                           *)
(***************************************************************************)
UpdatesMade == SpawnerUpdates - ticksLeft

\* C28: an update that begins with an obstacle in the pool leaves the obstacle
\* timer alone, one that begins with an empty pool advances it by one and
\* creates an obstacle exactly when it reaches obstacleInterval (at most 100),
\* so the timer is 0 while an obstacle is live and counts the updates since
\* the pool became empty; the coin timer advances by one in every update and a
\* coin is created exactly when it reaches coinInterval (at most 80); 200
\* updates of a new scheduler have created an obstacle and a coin, and
\* both pools are non-empty at the 200th.
C28_TimersAndFirstSpawns ==
    /\ [](/\ spawnManager.obstacleTimer < spawnManager.obstacleInterval
          /\ spawnManager.coinTimer < spawnManager.coinInterval
          /\ spawnManager.obstacleInterval <= 100
          /\ spawnManager.coinInterval <= 80
          /\ Len(spawnManager.obstacles) > 0 => spawnManager.obstacleTimer = 0
          /\ UpdatesMade >= 200 =>
                /\ spawnManager.obstacleInterval < 100
                /\ spawnManager.coinInterval < 80
          /\ UpdatesMade = 200 =>
                /\ Len(spawnManager.obstacles) > 0
                /\ Len(spawnManager.coins) > 0)
    /\ [][ FrameStep =>
            LET obstacleDue == /\ Len(spawnManager.obstacles) = 0
                               /\ spawnManager.obstacleTimer + 1 = spawnManager.obstacleInterval
                coinDue == spawnManager.coinTimer + 1 = spawnManager.coinInterval
            IN /\ spawnManager'.obstacleTimer =
                    IF Len(spawnManager.obstacles) > 0 THEN spawnManager.obstacleTimer
                    ELSE IF obstacleDue THEN 0 ELSE spawnManager.obstacleTimer + 1
               /\ (\E o \in Range(spawnManager'.obstacles) : JustCreated(o)) <=> obstacleDue
               /\ spawnManager'.coinTimer =
                    IF coinDue THEN 0 ELSE spawnManager.coinTimer + 1
               /\ (\E c \in Range(spawnManager'.coins) : JustCreated(c)) <=> coinDue ]_vars

\* The second obstacle has just been created, one interval after the first
\* one left the pool
C28_ObstacleAfterPoolEmptied ==
    /\ log.op = "update"
    /\ \E o \in Range(spawnManager.obstacles) : JustCreated(o)
    /\ spawnManager.obstacleInterval = 98
    /\ UpdatesMade = 100 + 168 + 99

(***************************************************************************)
(* Removal from the pools, under Spec.                                     *)
(***************************************************************************)
Flagged(seq) == { i \in 1..Len(seq) : seq[i].markedForDeletion }

\* C29: at the end of every frame no pool holds an obstacle, coin or enemy
\* that is flagged for removal, whether it was flagged for leaving the field
\* on the left or for being consumed by a collision.
C29_FlaggedGoneByEndOfTick ==
    FrameRan =>
        /\ Flagged(spawnManager.obstacles) = {}
        /\ Flagged(spawnManager.coins) = {}
        /\ Flagged(enemies) = {}

(***************************************************************************)
(* The invincible actor meeting an enemy, under Spec.                      *)
(***************************************************************************)
HitEnemies ==
    { i \in 1..Len(Found.enemies) : BodyOverlap(Found.player.y, Found.enemies[i]) }

\* C30: the collision phase of a frame never changes the number of enemies,
\* and an enemy the invincible actor collided with is still in the pool after
\* the frame, at x = field width + 500, not attacking, with attack timer and
\* cooldown 0 and not flagged for removal.
C30_InvincibleHitRecyclesEnemy ==
    FrameRan =>
        /\ Len(enemies) = Len(Found.enemies)
        /\ Protected(Found.player) =>
              \A i \in HitEnemies :
                  /\ enemies[i].x = Px(canvasWidth + 500)
                  /\ ~enemies[i].isAttacking
                  /\ enemies[i].attackTimer = 0
                  /\ enemies[i].attackCooldown = 0
                  /\ ~enemies[i].markedForDeletion

\* The invincible actor has just collided with an enemy that was attacking
C30_AttackingEnemyRecycled ==
    /\ FrameRan
    /\ Protected(Found.player)
    /\ \E i \in HitEnemies :
          /\ Found.enemies[i].isAttacking
          /\ enemies[i].x = Px(canvasWidth + 500)

(***************************************************************************)
(* The Player over whole jumps and attacks, under SpecActor.               *)
(***************************************************************************)
CalledOn == log.before[1].player

\* C31: whenever the actor is grounded (isJumping false) its y is the ground
\* line, its vertical velocity is 0 and canDoubleJump and hasDoubleJumped are
\* both false, so every landing gives back the ground jump and the double
\* jump.
C31_GroundedAtRest ==
    ~player.isJumping =>
        /\ player.y = Px(canvasHeight - playerHeight)
        /\ player.velocityY = 0
        /\ ~player.canDoubleJump
        /\ ~player.hasDoubleJumped

\* An update has just landed the actor after a double jump
C31_LandedAfterDoubleJump ==
    /\ log.op = "update"
    /\ CalledOn.isJumping
    /\ CalledOn.hasDoubleJumped
    /\ ~player.isJumping

UpdateStep == log'.op = "update"

\* C32: the actor is never attacking with a positive cooldown; the update in
\* which the 20th tick of an attack elapses ends the attack and sets the
\* cooldown to 30, every earlier update of the attack leaves the cooldown at
\* 0, an update of an actor that is not attacking lowers a positive cooldown
\* by one, and nothing else changes the cooldown.
C32_AttackExcludesCooldown ==
    /\ [](/\ ~(player.isAttacking /\ player.attackCooldown > 0)
          /\ player.attackTimer < 20
          /\ player.attackCooldown \in 0..30)
    /\ [][ IF UpdateStep
           THEN IF player.isAttacking
                THEN IF player.attackTimer = 19
                     THEN ~player'.isAttacking /\ player'.attackCooldown = 30
                     ELSE /\ player'.isAttacking
                          /\ player'.attackTimer = player.attackTimer + 1
                          /\ player'.attackCooldown = 0
                ELSE /\ ~player'.isAttacking
                     /\ player'.attackCooldown =
                            IF player.attackCooldown > 0
                            THEN player.attackCooldown - 1 ELSE 0
           ELSE player'.attackCooldown = player.attackCooldown ]_vars

\* The 20th update of an attack has just ended it and started the cooldown
C32_CooldownStarted ==
    /\ log.op = "update"
    /\ CalledOn.isAttacking
    /\ CalledOn.attackTimer = 19
    /\ ~player.isAttacking
    /\ player.attackCooldown = 30

(***************************************************************************)
(* The Player's power-up, under SpecPower.                                 *)
(***************************************************************************)
\* C33: a power-up is active exactly while fewer than 600 updates have been
\* made since the most recent activation, its timer being the number of
\* those updates, so it expires in the 600th update and an activation
\* restarts the count; an actor without a power-up has isSuperPowerUp false
\* and the timer at 0.
C33_ExpiresAtSixHundredth ==
    /\ player.hasPowerUp <=> ticksLeft > 0
    /\ player.hasPowerUp => player.powerUpTimer = 600 - ticksLeft
    /\ ~player.hasPowerUp => (~player.isSuperPowerUp /\ player.powerUpTimer = 0)

\* The 600th update after the activation of a Super power-up has just ended it
C33_SuperExpired ==
    /\ log.op = "update"
    /\ CalledOn.hasPowerUp
    /\ CalledOn.isSuperPowerUp
    /\ CalledOn.powerUpTimer = 599
    /\ ~player.hasPowerUp
    /\ ticksLeft = 0

MovedBySpeed(seq) ==
    [ i \in 1..Len(seq) |->
        [ x |-> seq[i].x - seq[i].speed, y |-> seq[i].y,
          gone |-> \/ seq[i].markedForDeletion
                   \/ seq[i].x - seq[i].speed + seq[i].width < 0 ] ]

\* The same for enemies: 3 to the left, 2.4 while attacking
MovedEnemies(seq) ==
    [ i \in 1..Len(seq) |->
        LET x1 == seq[i].x - (IF seq[i].isAttacking THEN 24 ELSE 30)
        IN [ x |-> x1, y |-> seq[i].y,
             gone |-> x1 + seq[i].width < -100 ] ]

Kept(moved) == SelectSeq(moved, LAMBDA m : ~m.gone)

\* The first members of pool `after` are where `kept` says, in the same order
StartsWith(after, kept) ==
    /\ Len(kept) <= Len(after)
    /\ \A i \in 1..Len(kept) : after[i].x = kept[i].x /\ after[i].y = kept[i].y

\* C35: the update of a frame moves every obstacle left by its (positive)
\* speed and every enemy left by 3, or by 2.4 if it was attacking, and when
\* the actor holds no power-up it moves every coin left by exactly its speed
\* and leaves the coin's y alone; the only other members of the pools after
\* the update are the ones the frame created.
C35_EntitiesMoveLeft ==
    [][ (FrameStep /\ Len(log'.atCollision) = 1) =>
          LET after == log'.atCollision[1]
              obstacles == Kept(MovedBySpeed(spawnManager.obstacles))
              coins == Kept(MovedBySpeed(spawnManager.coins))
              foes == Kept(MovedEnemies(enemies))
          IN /\ \A i \in 1..Len(spawnManager.obstacles) : spawnManager.obstacles[i].speed > 0
             /\ \A i \in 1..Len(spawnManager.coins) : spawnManager.coins[i].speed > 0
             /\ StartsWith(after.obstacles, obstacles)
             /\ \A j \in (Len(obstacles) + 1)..Len(after.obstacles) :
                    JustCreated(after.obstacles[j])
             /\ StartsWith(after.enemies, foes)
             /\ \A j \in (Len(foes) + 1)..Len(after.enemies) :
                    after.enemies[j].x >= Px(canvasWidth + 500)
             /\ ~after.player.hasPowerUp =>
                    /\ StartsWith(after.coins, coins)
                    /\ \A j \in (Len(coins) + 1)..Len(after.coins) :
                           JustCreated(after.coins[j]) ]_vars

\* A frame of an actor without power-up has just moved an obstacle, a coin
\* and an attacking enemy
C35_AllThreeMoved ==
    /\ FrameRan
    /\ ~Found.player.hasPowerUp
    /\ \E o \in Range(Found.obstacles) : ~JustCreated(o)
    /\ \E c \in Range(Found.coins) : ~JustCreated(c)
    /\ \E e \in Range(Found.enemies) : e.isAttacking /\ e.attackTimer > 1

(***************************************************************************)
(* Awards of the collision phase, under Spec.                              *)
(***************************************************************************)
Awarded(v) == v.scoreAfter > v.scoreBefore

\* C36: no obstacle or coin flagged for removal is in its pool when a
\* collision phase begins, a collision phase tests each obstacle and each
\* coin at most once, in pool order, and every obstacle or coin it awards
\* points for is flagged when the frame ends; so no obstacle or coin adds to
\* the score twice.
C36_AwardedAtMostOnce ==
    FrameRan =>
        LET coinEvals == EvalsOf("Coin")
            obstacleEvals == EvalsOf("Obstacle")
        IN /\ Flagged(Found.obstacles) = {}
           /\ Flagged(Found.coins) = {}
           /\ Len(coinEvals) = Len(Found.coins)
           /\ Len(obstacleEvals) <= Len(Found.obstacles)
           /\ Len(spawnManager.coins) = Len(Found.coins)
           /\ Len(spawnManager.obstacles) = Len(Found.obstacles)
           /\ \A i \in 1..Len(coinEvals) :
                 /\ coinEvals[i].object = Found.coins[i]
                 /\ Awarded(coinEvals[i]) => spawnManager.coins[i].markedForDeletion
           /\ \A i \in 1..Len(obstacleEvals) :
                 /\ obstacleEvals[i].object = Found.obstacles[i]
                 /\ Awarded(obstacleEvals[i]) => spawnManager.obstacles[i].markedForDeletion

\* A collision phase has awarded points for an obstacle, which is now flagged
C36_ObstacleAwarded ==
    /\ FrameRan
    /\ Flagged(spawnManager.obstacles) # {}
    /\ \E i \in 1..Len(EvalsOf("Obstacle")) : Awarded(EvalsOf("Obstacle")[i])

(***************************************************************************)
(* The Player's attack, under SpecAttack.                                  *)
(***************************************************************************)
InvincibleInWindow == Cardinality({ i \in 1..Len(log.evals) : log.evals[i] })

\* C37: an attack starts only when at least 50 updates have been made since
\* the previous attack started, however often attack() is called, and among
\* any 50 consecutive updates the actor is invincible after at most 14.
C37_AttackAtMostEveryFifty ==
    /\ [](Len(log.evals) <= 50 /\ InvincibleInWindow <= 14)
    /\ [][ (~player.isAttacking /\ player'.isAttacking) => ticksLeft = 0 ]_vars

\* Fifty updates that begin with the last invincible update of one attack and
\* end inside the invincibility of the next
C37_TwoAttacksInWindow ==
    /\ Len(log.evals) = 50
    /\ log.evals[1]
    /\ ~log.evals[2]
    /\ log.evals[50]
    /\ InvincibleInWindow = 14

(***************************************************************************)
(* The Super power-up in the game loop, under Spec.                        *)
(***************************************************************************)
\* C38: isSuperPowerUp goes from true to false only by a restart, which
\* builds a new actor without power-up, or in the actor's update of a frame,
\* together with hasPowerUp (the expiry); the collision phase and the
\* threshold check of a frame never take it away, so no activation of a
\* regular power-up replaces an active Super one; and neither availability
\* flag of the tracker is set when a frame has ended.
C38_SuperNeverDowngraded ==
    /\ [](/\ ~powerUpManager.isPowerUpAvailable
          /\ ~powerUpManager.isSuperPowerUpAvailable
          /\ player.isSuperPowerUp => player.hasPowerUp
          /\ FrameRan =>
                (Found.player.isSuperPowerUp =>
                    player.isSuperPowerUp /\ player.hasPowerUp))
    /\ [][ (player.isSuperPowerUp /\ ~player'.isSuperPowerUp) =>
            \/ log'.op = "restart" /\ ~player'.hasPowerUp
            \/ /\ Len(log'.atCollision) = 1
               /\ ~log'.atCollision[1].player.isSuperPowerUp
               /\ ~log'.atCollision[1].player.hasPowerUp ]_vars

\* The score has crossed a regular threshold while a Super power-up was
\* active, and the Super power-up is still active
C38_RegularCrossingUnderSuper ==
    /\ FrameRan
    /\ Found.player.isSuperPowerUp
    /\ Len(log.checks) = 1
    /\ RegularCrossed(TheCheck)
    /\ ~SuperCrossed(TheCheck)
    /\ player.isSuperPowerUp

(***************************************************************************)
(* The placement of enemies against obstacles, under Spec.                 *)
(***************************************************************************)
\* C39: every obstacle in the pool has x <= field width, every candidate x
\* of spawnEnemy is at least field width + 500, so each candidate is at
\* least 500 (more than 350) away from every obstacle live at the call,
\* every call adds its enemy at once and no retry is ever scheduled.
C39_RejectionUnreachable ==
    /\ retryTimers = 0
    /\ \A o \in Range(spawnManager.obstacles) : o.x <= Px(canvasWidth)
    /\ \A i \in 1..Len(log.spawns) :
          /\ log.spawns[i].x >= Px(canvasWidth + 500)
          /\ log.spawns[i].added
          /\ FrameRan =>
                \A o \in Range(Found.obstacles) :
                    /\ o.x <= Px(canvasWidth)
                    /\ Abs(o.x - log.spawns[i].x) >= Px(500)

\* spawnEnemy was called in a frame with a live obstacle on the field
C39_SpawnWithObstacleOnField ==
    /\ FrameRan
    /\ Len(log.spawns) = 1
    /\ \E o \in Range(Found.obstacles) :
          /\ o.x > 0
          /\ log.spawns[1].x - o.x >= Px(500)

(***************************************************************************)
(* Landing, under SpecLanding.                                             *)
(***************************************************************************)
JumpStep == log'.op = "jump"

\* C40: when from some point on no jump is called, the actor is grounded
\* from some point on; an actor that never holds the Super power-up is
\* grounded again and again even if jump is called for ever; and a jump
\* called on an airborne actor that has used its double jump changes its
\* velocity only under the Super power-up.
C40_AirborneActorLands ==
    /\ (<>[][~JumpStep]_vars) => <>[](~player.isJumping)
    /\ ([](~player.isSuperPowerUp)) => []<>(~player.isJumping)
    /\ [][ (JumpStep /\ player.isJumping /\ player.hasDoubleJumped) =>
            IF player.isSuperPowerUp
            THEN player'.velocityY = -70 /\ player'.isJumping
            ELSE player' = player ]_vars

\* An update has grounded an actor that was falling after its double jump
C40_FellToTheGround ==
    /\ log.op = "update"
    /\ CalledOn.isJumping
    /\ CalledOn.velocityY > 0
    /\ CalledOn.hasDoubleJumped
    /\ ~CalledOn.isSuperPowerUp
    /\ ~player.isJumping

====
